---- MODULE Spec2Model ----
(***************************************************************************)
(* Model of the market-data synchronisation pipeline of eliza-plugins:     *)
(*   - MarketDatabaseAdapter          (adapter-marketdatabase/src/index.ts) *)
(*   - MarketDataService (scheduler)  (plugin-coingecko/.../marketDataService.ts) *)
(*   - MarketDataService (fetcher)    (plugin-base-market/.../marketDataService.ts) *)
(*   - TokenInfoService (enrichment)  (plugin-base-market/.../tokenInfoService.ts) *)
(* Each component has its own specification over the shared variables; the  *)
(* variables of the other components stay unchanged.  An async function is  *)
(* modelled with one action per segment between two awaits, which is the    *)
(* unit the JavaScript event loop runs atomically.                          *)
(***************************************************************************)
EXTENDS Integers, Sequences, FiniteSets, TLC

VARIABLES
    \* ---- wall clock (Date.now(), in milliseconds) ----
    now,
    \* ---- which plugin's store a run of SpecStore exercises: the adapter and the
    \*      base-market service are separate objects on separate databases ----
    plugin,
    \* ---- MarketDatabaseAdapter: tables of schema.sql ----
    coins,            \* rows of table coins, keyed by id
    market_data,      \* rows of table market_data, keyed by the AUTOINCREMENT id
    nextRowId,        \* next AUTOINCREMENT value of market_data.id
    storeResult,      \* how the last adapter call ended for its caller
    lastClean,        \* the last cleanOldData call: its argument, time and result.changes
    lastStoreArg,     \* the storeMarketData call that ran last: its data and its disk fault
    \* ---- plugin-base-market MarketDataService: table base_market_data ----
    base_market_data, \* rows of table base_market_data
    baseStoreResult,  \* how the last storeMarketData call of the service ended
    lastBaseStoreArg, \* the call that ran last: its data and its disk fault
    \* ---- plugin-coingecko MarketDataService (scheduler) ----
    isUpdating,       \* MarketDataService.isUpdating
    lastUpdateTime,   \* MarketDataService.lastUpdateTime
    updateInterval,   \* MarketDataService.updateInterval: NULL, or when the timer fires next
    initState,        \* initialize(): "new", "running", "initialized" or "failed"
    cycles,           \* every updateMarketData call so far, running or ended, in start order
    \* ---- plugin-base-market TokenInfoService (enrichment) ----
    requestQueue,     \* TokenInfoService.requestQueue
    enrichPc,         \* where processBulkTokenInfo is: "idle", "rateLimit", "fetch", "backoff",
                      \* "result" (fetchTokenInfo has returned) or "done"
    tokenIdsArg,      \* the tokenIds argument of the running pass
    tokenId,          \* the identifier dequeued last
    lastResult,       \* what fetchTokenInfo returned: "ok", "failed" or "rate-limit"
    successCount,
    failureCount,
    failedTokenIds,
    enrichDb,         \* tables base_token_info, token_categories, token_dex_data (keys)
    rateLimitsLeft,   \* how many 429 answers the upstream will still give, or Unlimited
    rateLimited,      \* the identifiers that got a 429 answer in the running pass
    \* ---- plugin-base-market MarketDataService (scheduler and fetcher) ----
    baseInit,         \* initialize: "new", "initial-fetch", "running" (timer set) or "failed"
    apiKey,           \* MarketDataService.apiKey is set
    dataCollectionInterval,  \* NULL, or the time at which the interval timer fires next
    upstreamSize,     \* the number of records the upstream lists in each category
    baseCycles,       \* every run of the two fetches so far, running or ended
    coingeckoApiKey,  \* plugin-coingecko MarketDataService.apiKey is a non-empty string
    \* ---- plugin-contract-analysis ContractAnalysisService ----
    memoryManager,    \* ContractAnalysisService.memoryManager is set
    memories,         \* the memories of table contract_analysis
    analyses,         \* every analyzeContract call so far, running or ended
    \* ---- TokenInfoService called by several callers ----
    passes,           \* every processBulkTokenInfo call so far, running or ended, with
                      \* its local variables; requestQueue is the field they share
    startup,          \* TokenInfoService.initialize: where it stands, its attempts
                      \* counter and the getAllTokenIds() calls it has made
    \* ---- ContractAnalysisService.clearOldAnalyses ----
    cleanup,          \* the running clearOldAnalyses call: where it stands, its
                      \* cutoffTime, the rooms still to process and the room in hand
    \* ---- adapter-marketdatabase: category links ----
    coin_categories,  \* the rows of table coin_categories, as (coin_id, category_id)
    \* ---- CoingeckoService (plugin-coingecko API client) ----
    operations,       \* the operations passed to executeWithRateLimit, in call order,
                      \* each with its state, the times it started and settled, and
                      \* what the promise returned to its caller settled with
    limiterClock,     \* ms since the CoingeckoService was constructed
    \* ---- read queries ----
    analytics         \* the analytics query that ran last: its name, the table it
                      \* read (of) and the snapshot rows its answer is computed from

storeVars == <<coins, market_data, nextRowId, storeResult, lastClean, lastStoreArg>>

baseStoreVars == <<base_market_data, baseStoreResult, lastBaseStoreArg>>

syncVars == <<isUpdating, lastUpdateTime, updateInterval, initState, cycles>>

enrichVars == <<requestQueue, enrichPc, tokenIdsArg, tokenId, lastResult, successCount,
                failureCount, failedTokenIds, enrichDb, rateLimitsLeft, rateLimited>>

baseVars == <<baseInit, apiKey, dataCollectionInterval, upstreamSize, baseCycles>>

queryVars == <<analytics>>

keyVars == <<coingeckoApiKey>>

contractVars == <<memoryManager, memories, analyses>>

passVars == <<passes>>

\* the components outside the stores, the schedulers, the enrichment pass, the
\* queries and the analysis cache
startupVars == <<startup>>

limiterVars == <<operations, limiterClock>>

categoryVars == <<coin_categories>>

cleanupVars == <<cleanup>>

laterVars == <<passVars, startupVars, limiterVars, categoryVars, cleanupVars>>

vars == <<now, plugin, storeVars, baseStoreVars, syncVars, enrichVars, baseVars, queryVars,
          keyVars, contractVars, laterVars>>

\* null, where a number is expected
NULL == -1

(***************************************************************************)
(* Time.  The program constants are in milliseconds, as in the source.     *)
(***************************************************************************)
UPDATE_INTERVAL == 60 * 60 * 1000
MINIMUM_UPDATE_GAP == 55 * 60 * 1000
MAX_RETRIES == 3
RETRY_DELAY == 5 * 60 * 1000

\* The clock advances in steps of one retry delay (5 minutes).
TimeStep == RETRY_DELAY
\* Date.now() when the process starts: any value at least one period after the epoch.
StartTime == UPDATE_INTERVAL
MaxClockSteps == 15
MaxTime == StartTime + MaxClockSteps * TimeStep

DayMs == 24 * 60 * 60 * 1000
\* Date.prototype.toISOString: "YYYY-MM-DD" "T" "hh:mm:ss.sssZ"
toISOString(ms) == [date |-> ms \div DayMs, sep |-> "T", time |-> ms % DayMs]

\* SQLite datetime('now', '-' || days || ' days'): "YYYY-MM-DD" " " "hh:mm:ss" in UTC,
\* the day number moved back by days.  Day numbers count from the day of the
\* clock's origin; the days before it are negative.
datetimeAhead(ms, days) ==
    [date |-> ms \div DayMs + days, sep |-> " ", time |-> ((ms % DayMs) \div 1000) * 1000]

datetime(ms, days) ==
    [date |-> ms \div DayMs - days, sep |-> " ", time |-> ((ms % DayMs) \div 1000) * 1000]

\* the timestamp of the instant that lies days days before ms
isoDaysBefore(ms, days) == [date |-> ms \div DayMs - days, sep |-> "T", time |-> ms % DayMs]

\* The character code of the date/time separator: ' ' is 32, 'T' is 84
separatorCode(sep) == IF sep = " " THEN 32 ELSE IF sep = "T" THEN 84 ELSE 0

\* a < b for two TEXT values under the BINARY collation: the date part, then the
\* separator, then the rest (compared only between values of one format)
textLess(a, b) ==
    \/ a.date < b.date
    \/ /\ a.date = b.date
       /\ \/ separatorCode(a.sep) < separatorCode(b.sep)
          \/ separatorCode(a.sep) = separatorCode(b.sep) /\ a.time < b.time

(***************************************************************************)
(* MarketDatabaseAdapter                                                   *)
(***************************************************************************)
\* The empty string, in the shape of a timestamp. '' is falsy: storeMarketData
\* then stamps the row with the current time.
NoTimestamp == [date |-> 0, sep |-> "", time |-> 0]
\* MarketData items, each with its id, its timestamp and current_price (NOT NULL in
\* the schema): a stamped one, one without timestamp, and one the schema rejects
MarketDataItems ==
    {[id |-> "a", timestamp |-> toISOString(StartTime), current_price |-> 1],
     [id |-> "b", timestamp |-> NoTimestamp, current_price |-> 1],
     [id |-> "b", timestamp |-> toISOString(StartTime), current_price |-> NULL]}

MaxBatch == 2
MaxRows == 3

RECURSIVE SeqsUpTo(_, _)
SeqsUpTo(S, n) ==
    IF n = 0 THEN {<<>>}
    ELSE LET shorter == SeqsUpTo(S, n - 1)
         IN shorter \cup {Append(s, x) : s \in {t \in shorter : Len(t) = n - 1}, x \in S}

Batches == SeqsUpTo(MarketDataItems, MaxBatch)

\* INSERT OR IGNORE INTO coins (id, symbol, name): the primary key is id
insertCoin(db, item) ==
    IF \E c \in db.coins : c.id = item.id
    THEN db
    ELSE [db EXCEPT !.coins = @ \cup {[id |-> item.id]}]

\* Whether INSERT INTO market_data accepts the row: current_price is NOT NULL
insertMarketDataFails(item) == item.current_price = NULL

\* INSERT INTO market_data (...): a plain INSERT, the key is the AUTOINCREMENT id
insertMarketData(db, item, clock) ==
    [db EXCEPT !.market_data = @ \cup {[rowid |-> db.nextRowId,
                                         coin_id |-> item.id,
                                         timestamp |-> IF item.timestamp = NoTimestamp
                                                       THEN toISOString(clock)
                                                       ELSE item.timestamp]},
               !.nextRowId = @ + 1]

\* The body of the transaction function, run on items 1..n of the batch;
\* ioFailAt is the item at which the disk refuses the write (0: never).
\* Gives the tables after the loop and whether a statement threw.
RECURSIVE storeLoop(_, _, _, _, _)
storeLoop(db, data, i, ioFailAt, clock) ==
    IF i > Len(data) THEN [db |-> db, threw |-> FALSE]
    ELSE LET withCoin == insertCoin(db, data[i])
         IN IF insertMarketDataFails(data[i]) \/ ioFailAt = i
            THEN [db |-> withCoin, threw |-> TRUE]
            ELSE storeLoop(insertMarketData(withCoin, data[i], clock), data, i + 1, ioFailAt, clock)

\* better-sqlite3 db.transaction(fn)(arg): BEGIN, fn, COMMIT; ROLLBACK and rethrow if fn throws.
\* A rolled back AUTOINCREMENT counter is restored with the tables.
TransactionNoRollback(before, ran) == ran.db
Transaction(before, ran) == IF ran.threw THEN before ELSE ran.db

AdapterDb == [coins |-> coins, market_data |-> market_data, nextRowId |-> nextRowId]

\* MarketDatabaseAdapter.storeMarketData(data)
storeMarketData(data, ioFailAt) ==
    LET ran == storeLoop(AdapterDb, data, 1, ioFailAt, now)
        after == Transaction(AdapterDb, ran)
    IN /\ coins' = after.coins
       /\ market_data' = after.market_data
       /\ nextRowId' = after.nextRowId
       /\ storeResult' = IF ran.threw THEN "error" ELSE "ok"
       /\ lastStoreArg' = [data |-> data, ioFailAt |-> ioFailAt]
       /\ UNCHANGED lastClean

StoreCall ==
    \E data \in Batches, ioFailAt \in 0..MaxBatch :
        /\ Cardinality(market_data) + Len(data) <= MaxRows
        /\ ioFailAt <= Len(data)
        /\ storeMarketData(data, ioFailAt)
        /\ UNCHANGED <<now, plugin, laterVars, keyVars, contractVars, queryVars, baseStoreVars, syncVars, enrichVars, baseVars>>

(***************************************************************************)
(* plugin-base-market MarketDataService.storeMarketData                    *)
(***************************************************************************)
Categories == {"base-meme-coins", "base-ecosystem"}

\* The uniqueness constraint of base_market_data, which INSERT OR IGNORE relies on
baseMarketDataKey(row) == <<row.id, row.timestamp, row.category>>

\* stmt.run(token) throws when the token lacks a named parameter of the statement
baseInsertFails(token) == ~token.complete

\* the columns of a row; the model keeps the columns of the key
baseRow(token) == [id |-> token.id, category |-> token.category, timestamp |-> token.timestamp]

\* INSERT OR IGNORE INTO base_market_data (...): a row whose key is present is skipped
baseInsertOrIgnore(table, rows) ==
    LET keys == {baseMarketDataKey(r) : r \in table}
    IN  table \cup {r \in rows : baseMarketDataKey(r) \notin keys}

\* The transaction function: stmt.run(token) for each token in turn, rethrowing the
\* first error.  The tokens before the first failing one are inserted; two tokens
\* with one key give one row, the second being ignored.
baseStoreLoop(table, data, ioFailAt) ==
    LET failing == {i \in 1..Len(data) : baseInsertFails(data[i]) \/ ioFailAt = i}
        stop == IF failing = {} THEN Len(data) + 1
                ELSE CHOOSE i \in failing : \A k \in failing : i <= k
    IN  [db |-> baseInsertOrIgnore(table, {baseRow(data[i]) : i \in 1..(stop - 1)}),
         threw |-> failing # {}]

\* MarketDataService.storeMarketData(data): the table after the call and whether it threw
baseStoreMarketData(table, data, ioFailAt) ==
    LET ran == baseStoreLoop(table, data, ioFailAt)
    IN [db |-> Transaction(table, ran), threw |-> ran.threw]

BaseTokenIds == 1..2
BaseTokens == [id : BaseTokenIds, category : {"base-ecosystem"}, timestamp : {StartTime \div 1000},
               complete : BOOLEAN]
BaseBatches == SeqsUpTo(BaseTokens, MaxBatch)

BaseStoreCall ==
    \E data \in BaseBatches, ioFailAt \in 0..MaxBatch :
        /\ ioFailAt <= Len(data)
        /\ LET res == baseStoreMarketData(base_market_data, data, ioFailAt)
           IN /\ base_market_data' = res.db
              /\ baseStoreResult' = IF res.threw THEN "error" ELSE "ok"
        /\ lastBaseStoreArg' = [data |-> data, ioFailAt |-> ioFailAt]
        /\ UNCHANGED <<now, plugin, laterVars, keyVars, contractVars, queryVars, storeVars, syncVars, enrichVars, baseVars>>

StoreTick ==
    /\ now + TimeStep <= StartTime + TimeStep
    /\ now' = now + TimeStep
    /\ UNCHANGED <<plugin, laterVars, keyVars, contractVars, queryVars, storeVars, baseStoreVars, syncVars, enrichVars, baseVars>>

StoreInit ==
    /\ now = StartTime
    /\ coins = {}
    /\ market_data = {}
    /\ nextRowId = 1
    /\ storeResult = "none"
    /\ lastStoreArg = [data |-> <<>>, ioFailAt |-> 0]
    /\ lastClean = [retentionDays |-> NULL, at |-> NULL, changes |-> 0]

BaseStoreInit ==
    /\ base_market_data = {}
    /\ baseStoreResult = "none"
    /\ lastBaseStoreArg = [data |-> <<>>, ioFailAt |-> 0]

SyncInit ==
    /\ isUpdating = FALSE
    /\ lastUpdateTime = 0
    /\ updateInterval = NULL
    /\ initState = "new"
    /\ cycles = <<>>

Unlimited == -1
Max429 == 2

EnrichInit ==
    /\ requestQueue = <<>>
    /\ enrichPc = "idle"
    /\ tokenIdsArg = <<>>
    /\ tokenId = ""
    /\ lastResult = "none"
    /\ successCount = 0
    /\ failureCount = 0
    /\ failedTokenIds = <<>>
    /\ enrichDb = [base_token_info |-> {}, token_categories |-> {}, token_dex_data |-> {}]
    /\ rateLimitsLeft = 0
    /\ rateLimited = {}

BaseInit ==
    /\ baseInit = "new"
    /\ apiKey = FALSE
    /\ dataCollectionInterval = NULL
    /\ upstreamSize = [category \in {"base-meme-coins", "base-ecosystem"} |-> 0]
    /\ baseCycles = <<>>

QueryInit ==
    /\ analytics = [query |-> "none", of |-> {}, rows |-> {}, volumeRows |-> {}]

ContractInit ==
    /\ memoryManager = FALSE
    /\ memories = {}
    /\ analyses = <<>>

\* Every object as its constructor leaves it
LaterInit ==
    /\ passes = <<>>
    /\ startup = [pc |-> "new", attempts |-> 0, polls |-> 0, error |-> "none"]
    /\ operations = <<>>
    /\ limiterClock = 0
    /\ coin_categories = {}
    /\ cleanup = [pc |-> "idle", cutoffTime |-> 0, contractRooms |-> {}, roomId |-> "none",
                  calls |-> 0, cleared |-> 0]

Constructed ==
    /\ StoreInit /\ BaseStoreInit /\ SyncInit /\ EnrichInit /\ BaseInit /\ QueryInit
    /\ ContractInit
    /\ LaterInit

\* COINGECKO_API_KEY is set in the environment of the plugin-coingecko service: its
\* constructor copies it to this.apiKey, which is only sent as a request header
Init ==
    /\ plugin \in {"adapter", "base-market"}
    /\ Constructed
    /\ coingeckoApiKey = TRUE

StoreNext ==
    \/ plugin = "adapter" /\ StoreCall
    \/ plugin = "base-market" /\ BaseStoreCall
    \/ StoreTick

SpecStore == Init /\ [][StoreNext]_vars

(***************************************************************************)
(* MarketDatabaseAdapter.cleanOldData                                      *)
(***************************************************************************)
\* DELETE FROM market_data WHERE timestamp < datetime('now', '-' || ? || ' days'):
\* the rows that are left.  timestamp holds the text that storeMarketData wrote.
remainingRows(rows, retentionDays, clock) ==
    {r \in rows : ~textLess(r.timestamp, datetime(clock, retentionDays))}

\* MarketDatabaseAdapter.cleanOldData(retentionDays)
cleanOldData(retentionDays) ==
    LET remaining == remainingRows(market_data, retentionDays, now)
    IN  /\ market_data' = remaining
        /\ lastClean' = [retentionDays |-> retentionDays, at |-> now,
                         changes |-> Cardinality(market_data) - Cardinality(remaining)]
        /\ UNCHANGED <<coins, nextRowId, storeResult, lastStoreArg>>

\* how long before the start of the process the snapshots of the retention
\* runs were taken
SnapshotAges ==
    {[days |-> 40, ms |-> 0], [days |-> 30, ms |-> UPDATE_INTERVAL], [days |-> 30, ms |-> 0],
     [days |-> 10, ms |-> 0], [days |-> 0, ms |-> UPDATE_INTERVAL]}

RetentionItems ==
    {[id |-> "a", timestamp |-> isoDaysBefore(StartTime - age.ms, age.days),
      current_price |-> 1] : age \in SnapshotAges}

RetentionWindows == {10, 30}

MaxRetentionRows == 3

\* storeMarketData([item]) with a snapshot taken earlier
RetentionStore ==
    /\ nextRowId <= MaxRetentionRows
    /\ \E item \in RetentionItems : storeMarketData(<<item>>, 0)
    /\ UNCHANGED <<now, plugin, laterVars, keyVars, contractVars, queryVars, baseStoreVars, syncVars, enrichVars, baseVars>>

CleanCall ==
    /\ \E retentionDays \in RetentionWindows : cleanOldData(retentionDays)
    /\ UNCHANGED <<now, plugin, laterVars, keyVars, contractVars, queryVars, baseStoreVars, syncVars, enrichVars, baseVars>>

RetentionNext ==
    \/ RetentionStore
    \/ CleanCall

RetentionSpecInit == Init /\ plugin = "adapter"

SpecRetention == RetentionSpecInit /\ [][RetentionNext]_vars

(***************************************************************************)
(* Analytics queries: MarketDatabaseAdapter.getMarketAnalysis and the      *)
(* plugin-base-market getMarketInsights, getMarketOverview and             *)
(* getNotableMovers.  A query is modelled by the snapshot rows its answer  *)
(* is computed from; the joins and thresholds on columns the model does    *)
(* not keep admit any subset of the selected rows.                         *)
(***************************************************************************)
\* SELECT MAX(timestamp) FROM market_data: the greatest TEXT value
maxTimestamp(rows) ==
    CHOOSE t \in {r.timestamp : r \in rows} : \A r \in rows : ~textLess(t, r.timestamp)

\* WHERE m.timestamp = (SELECT MAX(timestamp) FROM market_data)
latestMarketData(rows) ==
    IF rows = {} THEN {} ELSE {r \in rows : r.timestamp = maxTimestamp(rows)}

\* WITH recent AS (... WHERE timestamp >= datetime('now', '-1 day')
\*                   ORDER BY timestamp DESC LIMIT 1)
recent(rows, clock) ==
    latestMarketData({r \in rows : ~textLess(r.timestamp, datetime(clock, 1))})

\* FROM market_data m JOIN recent r ON m.coin_id = r.coin_id
\* WHERE m.timestamp >= datetime('now', '-2 days')
volumeLeaderRows(rows, clock) ==
    {m \in rows : /\ ~textLess(m.timestamp, datetime(clock, 2))
                  /\ \E r \in recent(rows, clock) : m.coin_id = r.coin_id}

\* getMarketAnalysis(params): volumeLeaders and priceMovers; joined is the set of
\* rows that the joins with coins and coin_categories and the LIMIT let through
getMarketAnalysis(joined) ==
    analytics' = [query |-> "priceMovers", of |-> market_data,
                  rows |-> latestMarketData(market_data) \cap joined,
                  volumeRows |-> volumeLeaderRows(market_data, now) \cap joined]

\* params.category of a call without a category
NoCategoryParam == "none"

\* JOIN coin_categories cc ON c.id = cc.coin_id [AND cc.category_id = ?]: the rows
\* of market_data whose coin has a link (to the category asked for, if any)
categoryJoin(rows, links, category) ==
    {m \in rows : \E cc \in links :
        /\ cc.coin_id = m.coin_id
        /\ category # NoCategoryParam => cc.category_id = category}

GetMarketAnalysis ==
    /\ plugin = "adapter"
    /\ \E joined \in UNION {SUBSET categoryJoin(market_data, coin_categories, category) :
                                category \in Categories \cup {NoCategoryParam}} :
            getMarketAnalysis(joined)
    /\ UNCHANGED <<now, plugin, laterVars, keyVars, contractVars, storeVars, baseStoreVars, syncVars, enrichVars, baseVars>>

\* SELECT MIN(timestamp) FROM base_market_data
baseMinTimestamp(table) ==
    CHOOSE t \in {r.timestamp : r \in table} : \A r \in table : t <= r.timestamp

\* SELECT MAX(timestamp) FROM base_market_data: timestamps are integers (seconds)
baseMaxTimestamp(table) ==
    CHOOSE t \in {r.timestamp : r \in table} : \A r \in table : r.timestamp <= t

\* WHERE timestamp = (SELECT MAX(timestamp) FROM base_market_data)
baseLatest(table) ==
    IF table = {} THEN {} ELSE {r \in table : r.timestamp = baseMaxTimestamp(table)}

\* getMarketInsights: every row of the latest snapshot
getMarketInsights ==
    analytics' = [query |-> "marketInsights", of |-> base_market_data,
                  rows |-> baseLatest(base_market_data), volumeRows |-> {}]

\* getMarketOverview: the latest rows that join base_token_info with platform 'base'
getMarketOverview(native) ==
    analytics' = [query |-> "marketOverview", of |-> base_market_data,
                  rows |-> {r \in baseLatest(base_market_data) : r.id \in native},
                  volumeRows |-> {}]

\* getNotableMovers: the latest rows of 'base' tokens that pass the thresholds and ranks
getNotableMovers(native, passing) ==
    analytics' = [query |-> "notableMovers", of |-> base_market_data,
                  rows |-> {r \in baseLatest(base_market_data) : r.id \in native} \cap passing,
                  volumeRows |-> {}]

GetMarketInsights ==
    /\ plugin = "base-market"
    /\ getMarketInsights
    /\ UNCHANGED <<now, plugin, laterVars, keyVars, contractVars, storeVars, baseStoreVars, syncVars, enrichVars, baseVars>>

GetMarketOverview ==
    /\ plugin = "base-market"
    /\ \E native \in SUBSET BaseTokenIds : getMarketOverview(native)
    /\ UNCHANGED <<now, plugin, laterVars, keyVars, contractVars, storeVars, baseStoreVars, syncVars, enrichVars, baseVars>>

GetNotableMovers ==
    /\ plugin = "base-market"
    /\ \E native \in SUBSET BaseTokenIds, passing \in SUBSET base_market_data :
          getNotableMovers(native, passing)
    /\ UNCHANGED <<now, plugin, laterVars, keyVars, contractVars, storeVars, baseStoreVars, syncVars, enrichVars, baseVars>>

\* Snapshots of the base-market store, one fetch apart, stored in any order
SnapshotTimes == {StartTime \div 1000, (StartTime + UPDATE_INTERVAL) \div 1000}
SnapshotTokens == [id : BaseTokenIds, category : {"base-ecosystem"}, timestamp : SnapshotTimes,
                   complete : {TRUE}]

BaseSnapshotStore ==
    /\ plugin = "base-market"
    /\ \E token \in SnapshotTokens :
          LET res == baseStoreMarketData(base_market_data, <<token>>, 0)
          IN /\ base_market_data' = res.db
             /\ baseStoreResult' = IF res.threw THEN "error" ELSE "ok"
             /\ lastBaseStoreArg' = [data |-> <<token>>, ioFailAt |-> 0]
    /\ UNCHANGED <<now, plugin, laterVars, keyVars, contractVars, queryVars, storeVars, syncVars, enrichVars, baseVars>>

\* Snapshots of the adapter's store, stored in any order
AdapterSnapshotStore == plugin = "adapter" /\ RetentionStore

\* assignCategoryToToken(coinId, categoryId): INSERT OR IGNORE INTO coin_categories
AssignCategoryToToken ==
    /\ plugin = "adapter"
    /\ \E coinId \in {c.id : c \in coins}, categoryId \in Categories :
          /\ [coin_id |-> coinId, category_id |-> categoryId] \notin coin_categories
          /\ coin_categories' = coin_categories
                                  \cup {[coin_id |-> coinId, category_id |-> categoryId]}
    /\ UNCHANGED <<now, plugin, passVars, startupVars, limiterVars, cleanupVars, keyVars,
                   contractVars,
                   queryVars, storeVars, baseStoreVars, syncVars, enrichVars, baseVars>>

AnalyticsNext ==
    \/ AdapterSnapshotStore
    \/ AssignCategoryToToken
    \/ GetMarketAnalysis
    \/ BaseSnapshotStore
    \/ GetMarketInsights
    \/ GetMarketOverview
    \/ GetNotableMovers

SpecAnalytics == Init /\ [][AnalyticsNext]_vars

(***************************************************************************)
(* getNotableMovers with the columns its query reads.  A row carries the   *)
(* key of base_market_data, the market columns of the query, and the       *)
(* asset_platform_id of the base_token_info row it joins ("none" without   *)
(* one).  A nullable column is <<>> for NULL and <<v>> for the value v.    *)
(***************************************************************************)
minMarketCap == 5000000
minTotalVolume == 300000
minAbsChange == 5
top24h == 3
top7d == 1

abs(n) == IF n < 0 THEN 0 - n ELSE n

\* LOG10 on the market caps and volumes of the model, which are powers of ten
RECURSIVE LOG10(_)
LOG10(n) == IF n < 10 THEN 0 ELSE 1 + LOG10(n \div 10)

\* ABS(column) >= minAbsChange, which is not true of NULL
absAtLeast(column) == column # <<>> /\ abs(column[1]) >= minAbsChange

\* price_change_percentage_24h or price_change_percentage_7d of a row
price_change(row, timeframe) ==
    IF timeframe = "last_24h" THEN row.price_change_percentage_24h
    ELSE row.price_change_percentage_7d

\* movement_score_24h / movement_score_7d of a row whose change is not NULL
movement_score(row, timeframe) ==
    price_change(row, timeframe)[1]
        * LOG10(IF row.market_cap > 1 THEN row.market_cap ELSE 1)
        * LOG10(IF row.total_volume > 1 THEN row.total_volume ELSE 1)

\* the CTE base_native_metrics
base_native_metrics(table) ==
    {r \in baseLatest(table) :
        /\ r.asset_platform_id = "base"
        /\ r.market_cap >= minMarketCap
        /\ r.total_volume >= minTotalVolume
        /\ (absAtLeast(r.price_change_percentage_24h)
              \/ absAtLeast(r.price_change_percentage_7d))}

movement_type(row, timeframe) ==
    IF price_change(row, timeframe)[1] > 0 THEN "gainer" ELSE "loser"

\* ORDER BY ABS(movement_score) DESC: the key a partition is ranked by
rankKeyRawChange(row, timeframe) == abs(price_change(row, timeframe)[1])

rankKey(row, timeframe) == abs(movement_score(row, timeframe))

\* The rows ROW_NUMBER() can number 1..n in a partition: n rows (all of them when
\* there are fewer) such that no row left out has a greater key; equal keys may be
\* numbered either way
topRanked(partition, timeframe, n) ==
    {T \in SUBSET partition :
        /\ Cardinality(T) = IF Cardinality(partition) < n THEN Cardinality(partition) ELSE n
        /\ \A t \in T : \A u \in partition \ T :
              rankKey(t, timeframe) >= rankKey(u, timeframe)}

\* the rows of one branch of the UNION ALL, by movement type
moversPartition(table, timeframe, type) ==
    {r \in base_native_metrics(table) :
        /\ absAtLeast(price_change(r, timeframe))
        /\ movement_type(r, timeframe) = type}

\* the columns of a result row
moverRow(row, timeframe) ==
    [timeframe |-> timeframe, id |-> row.id, market_cap |-> row.market_cap,
     total_volume |-> row.total_volume, price_change |-> price_change(row, timeframe)[1],
     movement_type |-> movement_type(row, timeframe)]

MaxMovers == 4
MoverIds == 1..MaxMovers

MoverProfiles == <<
    [asset_platform_id |-> "base", market_cap |-> 10000000, total_volume |-> 1000000,
     price_change_percentage_24h |-> <<10>>, price_change_percentage_7d |-> <<6>>],
    [asset_platform_id |-> "base", market_cap |-> 100000000, total_volume |-> 10000000,
     price_change_percentage_24h |-> <<9>>, price_change_percentage_7d |-> <<-7>>],
    [asset_platform_id |-> "base", market_cap |-> 10000000, total_volume |-> 1000000,
     price_change_percentage_24h |-> <<6>>, price_change_percentage_7d |-> <<20>>],
    [asset_platform_id |-> "base", market_cap |-> 10000000, total_volume |-> 1000000,
     price_change_percentage_24h |-> <<-8>>, price_change_percentage_7d |-> <<4>>],
    [asset_platform_id |-> "base", market_cap |-> 100000000, total_volume |-> 1000000,
     price_change_percentage_24h |-> <<5>>, price_change_percentage_7d |-> <<-5>>],
    [asset_platform_id |-> "base", market_cap |-> 1000000, total_volume |-> 10000000,
     price_change_percentage_24h |-> <<50>>, price_change_percentage_7d |-> <<50>>],
    [asset_platform_id |-> "base", market_cap |-> 100000000, total_volume |-> 100000,
     price_change_percentage_24h |-> <<50>>, price_change_percentage_7d |-> <<-50>>],
    [asset_platform_id |-> "ethereum", market_cap |-> 100000000, total_volume |-> 10000000,
     price_change_percentage_24h |-> <<40>>, price_change_percentage_7d |-> <<40>>],
    [asset_platform_id |-> "none", market_cap |-> 100000000, total_volume |-> 10000000,
     price_change_percentage_24h |-> <<40>>, price_change_percentage_7d |-> <<-40>>],
    [asset_platform_id |-> "base", market_cap |-> 10000000, total_volume |-> 1000000,
     price_change_percentage_24h |-> <<>>, price_change_percentage_7d |-> <<8>>]>>

\* a row of base_market_data with the key and the columns of a profile
moverStored(id, timestamp, profile) ==
    [id |-> id, category |-> "base-ecosystem", timestamp |-> timestamp,
     asset_platform_id |-> profile.asset_platform_id, market_cap |-> profile.market_cap,
     total_volume |-> profile.total_volume,
     price_change_percentage_24h |-> profile.price_change_percentage_24h,
     price_change_percentage_7d |-> profile.price_change_percentage_7d]

\* The tables of the model: per asset no row (0) or one row of the latest fetch
\* with one of the profiles, and for the first asset possibly a row of the fetch
\* before, a strong gainer.  The query does not read the id, so the assets are
\* taken in the order of their profiles.
MoverTables ==
    {{moverStored(id, (StartTime + UPDATE_INTERVAL) \div 1000, MoverProfiles[latest[id]]) :
            id \in {i \in MoverIds : latest[i] # 0}}
        \cup (IF earlier
              THEN {moverStored(1, StartTime \div 1000,
                        [asset_platform_id |-> "base", market_cap |-> 100000000,
                         total_volume |-> 10000000, price_change_percentage_24h |-> <<90>>,
                         price_change_percentage_7d |-> <<90>>])}
              ELSE {}) :
        latest \in {f \in [MoverIds -> 0..Len(MoverProfiles)] :
                        \A i \in MoverIds : i > 1 => f[i - 1] <= f[i]},
        earlier \in BOOLEAN}

\* getNotableMovers(): at most top24h rows per movement type for 24 h and top7d
\* for 7 d
NotableMoversQuery ==
    /\ plugin = "base-market"
    /\ analytics.query = "none"
    /\ \E gainers24h \in topRanked(moversPartition(base_market_data, "last_24h", "gainer"),
                                    "last_24h", top24h),
          losers24h \in topRanked(moversPartition(base_market_data, "last_24h", "loser"),
                                   "last_24h", top24h),
          gainers7d \in topRanked(moversPartition(base_market_data, "last_7d", "gainer"),
                                   "last_7d", top7d),
          losers7d \in topRanked(moversPartition(base_market_data, "last_7d", "loser"),
                                  "last_7d", top7d) :
          analytics' = [query |-> "notableMovers", of |-> base_market_data,
                        rows |-> {moverRow(r, "last_24h") : r \in gainers24h \cup losers24h}
                                   \cup {moverRow(r, "last_7d") : r \in gainers7d \cup losers7d},
                        volumeRows |-> {}]
    /\ UNCHANGED <<now, plugin, laterVars, keyVars, contractVars, storeVars, baseStoreVars,
                   syncVars, enrichVars, baseVars>>

MoversNext == NotableMoversQuery

MoversSpecInit ==
    /\ plugin = "base-market"
    /\ StoreInit /\ SyncInit /\ EnrichInit /\ BaseInit /\ QueryInit /\ ContractInit /\ LaterInit
    /\ coingeckoApiKey = TRUE
    /\ baseStoreResult = "ok"
    /\ lastBaseStoreArg = [data |-> <<>>, ioFailAt |-> 0]
    /\ base_market_data \in MoverTables

SpecMovers == MoversSpecInit /\ [][MoversNext]_vars

(***************************************************************************)
(* plugin-contract-analysis ContractAnalysisService: initialize and        *)
(* analyzeContract.  A contract address is the pair of its first twelve    *)
(* hexadecimal digits (head) and its other twenty-eight (tail), in lower   *)
(* case and without the 0x prefix.  An analyzeContract call is a record    *)
(* of analyses; its pc is "fetching" while the request to the GoPlus API   *)
(* is in flight, then "returned" or "threw".                               *)
(***************************************************************************)
ANALYSIS_CACHE_DURATION == 3600000

ContractAddresses == [head : 1..2, tail : 1..2]

\* generateAnalysisRoomId: "ca000-0000-0000-0000-" and normalized.slice(0, 12)
generateAnalysisRoomId(contractAddress) == [prefix |-> "ca", digits |-> contractAddress.head]

\* what the GoPlus API answers for an address at a time: the keys of data.result
GoPlusData(contractAddress, clock) == [address |-> contractAddress, fetchedAt |-> clock]

\* memoryManager.getMemories({roomId, count: 1}): the memory of the room created
\* last; either of two memories created in the same millisecond
getMemories(roomId) ==
    {m \in memories : /\ m.roomId = roomId
                      /\ \A o \in memories : o.roomId = roomId => o.createdAt <= m.createdAt}

\* ContractAnalysisService.initialize
ContractInitialize ==
    /\ ~memoryManager
    /\ memoryManager' = TRUE
    /\ UNCHANGED <<now, plugin, laterVars, keyVars, storeVars, baseStoreVars, syncVars, enrichVars, baseVars,
                   queryVars, memories, analyses>>

MaxAnalyses == 3

\* analyzeContract(contractAddress) up to the fetch: the cache lookup.  The call
\* record keeps the time of the call and whether the API was called.
analyzeContract(contractAddress) ==
    LET analysisRoomId == generateAnalysisRoomId(contractAddress)
        call == [address |-> contractAddress, at |-> now, pc |-> "fetching",
                 apiCalled |-> TRUE, result |-> NULL]
    IN  IF ~memoryManager
        THEN analyses' = Append(analyses, [call EXCEPT !.pc = "threw", !.apiCalled = FALSE])
        ELSE \/ /\ getMemories(analysisRoomId) = {}
                /\ analyses' = Append(analyses, call)
             \/ \E cachedAnalysis \in getMemories(analysisRoomId) :
                    IF now - cachedAnalysis.createdAt < ANALYSIS_CACHE_DURATION
                    THEN analyses' = Append(analyses,
                            [call EXCEPT !.pc = "returned", !.apiCalled = FALSE,
                                         !.result = cachedAnalysis.data])
                    ELSE analyses' = Append(analyses, call)

AnalyzeContract ==
    /\ Len(analyses) < MaxAnalyses
    /\ \E contractAddress \in ContractAddresses : analyzeContract(contractAddress)
    /\ UNCHANGED <<now, plugin, laterVars, keyVars, storeVars, baseStoreVars, syncVars, enrichVars, baseVars,
                   queryVars, memoryManager, memories>>

\* The GoPlus API answers: !response.ok throws; otherwise the answer is stored
\* with createdAt = Date.now() and returned
GoPlusResponds ==
    /\ \E c \in 1..Len(analyses), ok \in BOOLEAN :
          /\ analyses[c].pc = "fetching"
          /\ IF ok
             THEN LET data == GoPlusData(analyses[c].address, now)
                  IN /\ memories' = memories \cup
                            {[roomId |-> generateAnalysisRoomId(analyses[c].address),
                              createdAt |-> now, data |-> data]}
                     /\ analyses' = [analyses EXCEPT ![c].pc = "returned", ![c].result = data]
             ELSE /\ analyses' = [analyses EXCEPT ![c].pc = "threw"]
                  /\ UNCHANGED memories
    /\ UNCHANGED <<now, plugin, laterVars, keyVars, storeVars, baseStoreVars, syncVars, enrichVars, baseVars,
                   queryVars, memoryManager>>

\* Time passes, half a cache duration at a time
MaxCacheSteps == 3
CacheStep == ANALYSIS_CACHE_DURATION \div 2

ContractTimePasses ==
    /\ now + CacheStep <= StartTime + MaxCacheSteps * CacheStep
    /\ now' = now + CacheStep
    /\ UNCHANGED <<plugin, laterVars, keyVars, contractVars, storeVars, baseStoreVars, syncVars, enrichVars,
                   baseVars, queryVars>>

ContractNext ==
    \/ ContractInitialize
    \/ AnalyzeContract
    \/ GoPlusResponds
    \/ ContractTimePasses

ContractSpecInit == Init /\ plugin = "adapter"

SpecContract == ContractSpecInit /\ [][ContractNext]_vars

(***************************************************************************)
(* ContractAnalysisService.clearOldAnalyses.  A memory of this part is a    *)
(* record with its id, room, createdAt and content.type.  One turn of the   *)
(* while loop of a room is one step: its getMemories call and the           *)
(* removeMemory calls of the batch, no other caller writing meanwhile.      *)
(***************************************************************************)
batchSize == 100
olderThan == 7 * 24 * 60 * 60 * 1000
agentId == "agent"
CallsModulus == 2

\* memoryManager.getMemories({roomId, count}): the count memories of the room
\* created last
getMemoriesBatch(table, roomId, count) ==
    LET room == {m \in table : m.roomId = roomId}
    IN  IF Cardinality(room) <= count THEN room
        ELSE {m \in room : Cardinality({o \in room : o.createdAt > m.createdAt}) < count}

\* hasMore = analyses.length === batchSize
hasMore(batch) == Cardinality(batch) = batchSize

\* Stores with fresh memories (createdAt >= cutoffTime) and old ones in the agent's
\* room, all of content.type type, and one old analysis in the room of a contract
CleanupStore(fresh, old, type) ==
    {[id |-> i, roomId |-> agentId, createdAt |-> StartTime - olderThan + i - 1, type |-> type] :
        i \in 1..fresh}
    \cup {[id |-> fresh + i, roomId |-> agentId, createdAt |-> StartTime - olderThan - i,
           type |-> type] : i \in 1..old}
    \cup {[id |-> 0, roomId |-> "ca000-0000-0000-0000-1", createdAt |-> StartTime - olderThan - 1,
           type |-> "contract_analysis"]}

MaxExtra == 1
RoomSizes == {0, 1} \cup ((batchSize - 1)..(batchSize + MaxExtra))

CleanupStores ==
    {CleanupStore(fresh, old, type) :
        fresh \in RoomSizes, old \in RoomSizes, type \in {"contract_analysis", "message"}}

\* the next room of the for loop, or the end of the call
nextRoom(c) ==
    IF c.contractRooms = {}
    THEN [c EXCEPT !.pc = "done", !.roomId = "none"]
    ELSE LET roomId == CHOOSE r \in c.contractRooms : TRUE
         IN  [c EXCEPT !.pc = "loop", !.roomId = roomId, !.contractRooms = @ \ {roomId},
                       !.calls = 0]

\* clearOldAnalyses() up to the for loop: cutoffTime, the memories of the agent's
\* room, the rooms of those of type "contract_analysis"
ClearOldAnalyses ==
    /\ plugin = "adapter"
    /\ memoryManager
    /\ cleanup.pc = "idle"
    /\ LET found == getMemoriesBatch(memories, agentId, batchSize)
           rooms == {m.roomId : m \in {f \in found : f.type = "contract_analysis"}}
       IN  cleanup' = nextRoom([cleanup EXCEPT !.cutoffTime = now - olderThan,
                                               !.contractRooms = rooms])
    /\ UNCHANGED <<now, plugin, passVars, startupVars, limiterVars, categoryVars, keyVars,
                   contractVars, queryVars, storeVars, baseStoreVars, syncVars, enrichVars,
                   baseVars>>

\* One turn of while (hasMore): the batch, the removal of its old analyses (which
\* the store may refuse), and the test analyses.length === batchSize
CleanupBatch ==
    /\ cleanup.pc = "loop"
    /\ LET analysesBatch == getMemoriesBatch(memories, cleanup.roomId, batchSize)
           oldAnalyses == {a \in analysesBatch : a.createdAt < cleanup.cutoffTime}
           more == hasMore(analysesBatch)
       IN  \E deleteFails \in BOOLEAN :
             LET counted == [cleanup EXCEPT !.calls = (@ + 1) % CallsModulus,
                                            !.cleared = IF deleteFails THEN @
                                                        ELSE @ + Cardinality(oldAnalyses)]
             IN  /\ memories' = IF deleteFails THEN memories ELSE memories \ oldAnalyses
                 /\ cleanup' = IF more THEN counted ELSE nextRoom(counted)
    /\ UNCHANGED <<now, plugin, passVars, startupVars, limiterVars, categoryVars, keyVars,
                   memoryManager, analyses, queryVars, storeVars, baseStoreVars, syncVars,
                   enrichVars, baseVars>>

CleanupNext ==
    \/ ClearOldAnalyses
    \/ CleanupBatch

CleanupSpecInit ==
    /\ plugin = "adapter"
    /\ StoreInit /\ BaseStoreInit /\ SyncInit /\ EnrichInit /\ BaseInit /\ QueryInit /\ LaterInit
    /\ coingeckoApiKey = TRUE
    /\ memoryManager = TRUE
    /\ analyses = <<>>
    /\ memories \in CleanupStores

\* the call is made and each await of the loop settles
CleanupFairness == WF_vars(ClearOldAnalyses) /\ WF_vars(CleanupBatch)

SpecCleanup == CleanupSpecInit /\ [][CleanupNext]_vars /\ CleanupFairness

(***************************************************************************)
(* plugin-coingecko MarketDataService: initialize, checkAndUpdate,         *)
(* updateMarketData.  A running updateMarketData call is a record of       *)
(* cycles; its pc is the await it is suspended at.                         *)
(***************************************************************************)
\* await this.db.cleanOldData(30)
RETENTION_DAYS == 30

\* What the upstream answers to GET /coins/markets for a category
UpstreamItems(category) ==
    IF category = "base-ecosystem"
    THEN <<[id |-> "a", current_price |-> 1]>>
    ELSE <<[id |-> "b", current_price |-> NULL]>>

Responses(category) ==
    {[status |-> 200, valid |-> TRUE, data |-> UpstreamItems(category)],
     [status |-> 200, valid |-> FALSE, data |-> <<>>],
     [status |-> 429, valid |-> FALSE, data |-> <<>>],
     [status |-> 500, valid |-> FALSE, data |-> <<>>]}

\* fetchCategoryData: axios.get, then CoinGeckoResponseSchema.parse; any error is rethrown
fetchCategoryData(resp) ==
    IF resp.status = 200 /\ resp.valid
    THEN [ok |-> TRUE, data |-> resp.data, error |-> ""]
    ELSE IF resp.status = 429
         THEN [ok |-> FALSE, data |-> <<>>, error |-> "Rate limit reached"]
         ELSE [ok |-> FALSE, data |-> <<>>, error |-> "fetch error"]

\* processApiResponse: current_price || 0, and the shared timestamp
processApiResponse(data, category, timestamp) ==
    [i \in 1..Len(data) |->
        [id |-> data[i].id,
         category |-> category,
         current_price |-> IF data[i].current_price = NULL THEN 0 ELSE data[i].current_price,
         timestamp |-> timestamp]]

\* updateMarketData up to its first await: retryCount = 0, the first attempt is issued
NewCycle(caller) ==
    [caller |-> caller, pc |-> "fetching", retryCount |-> 0, wakeAt |-> NULL,
     lutAtStart |-> lastUpdateTime, starts |-> <<now>>, ends |-> <<>>, commits |-> 0,
     endedAt |-> NULL, fetchedOk |-> {}]

\* The catch block of updateMarketData, on the record of the call: count the attempt,
\* then either sleep RETRY_DELAY or throw.  starts, ends and endedAt log the times.
attemptFailedNoDelay(cy) ==
    LET rc == cy.retryCount + 1
    IN IF rc < MAX_RETRIES
       THEN [cy EXCEPT !.retryCount = rc, !.ends = Append(@, now), !.pc = "retryWait",
                       !.wakeAt = now]
       ELSE [cy EXCEPT !.retryCount = rc, !.ends = Append(@, now), !.pc = "failed",
                       !.endedAt = now]

attemptFailed(cy) ==
    LET rc == cy.retryCount + 1
    IN IF rc < MAX_RETRIES
       THEN [cy EXCEPT !.retryCount = rc, !.ends = Append(@, now), !.pc = "retryWait",
                       !.wakeAt = now + RETRY_DELAY]
       ELSE [cy EXCEPT !.retryCount = rc, !.ends = Append(@, now), !.pc = "failed",
                       !.endedAt = now]

\* What the caller of updateMarketData does when the call cy has just moved:
\* initialize sets the timer on success and rethrows on failure; checkAndUpdate
\* resets isUpdating in its finally block.
callerContinues(cy) ==
    IF cy.pc \notin {"ok", "failed"}
    THEN UNCHANGED <<isUpdating, updateInterval, initState>>
    ELSE IF cy.caller = "initialize"
         THEN /\ updateInterval' = IF cy.pc = "ok" THEN now + UPDATE_INTERVAL ELSE updateInterval
              /\ initState' = IF cy.pc = "ok" THEN "initialized" ELSE "failed"
              /\ UNCHANGED isUpdating
         ELSE /\ isUpdating' = FALSE
              /\ UNCHANGED <<updateInterval, initState>>

\* An attempt of call c throws before the store has resolved (a fetch, a validation
\* or a store error): the catch block runs, lastUpdateTime is not touched.  cy is
\* the record of the call with the log of the attempt.
catchBlockStamps(c, cy) ==
    /\ cycles' = [cycles EXCEPT ![c] = attemptFailed(cy)]
    /\ callerContinues(attemptFailed(cy))
    /\ lastUpdateTime' = now

catchBlock(c, cy) ==
    /\ cycles' = [cycles EXCEPT ![c] = attemptFailed(cy)]
    /\ callerContinues(attemptFailed(cy))
    /\ UNCHANGED lastUpdateTime

\* initialize(): runs the first updateMarketData
Initialize ==
    /\ initState = "new"
    /\ initState' = "running"
    /\ cycles' = Append(cycles, NewCycle("initialize"))
    /\ UNCHANGED <<now, plugin, laterVars, keyVars, contractVars, queryVars, storeVars, baseStoreVars, enrichVars, baseVars, isUpdating, lastUpdateTime, updateInterval>>

\* The setInterval callback: checkAndUpdate()
checkAndUpdateNoFlag ==
    IF now - lastUpdateTime < MINIMUM_UPDATE_GAP
    THEN UNCHANGED <<isUpdating, cycles>>
    ELSE /\ isUpdating' = TRUE
         /\ cycles' = Append(cycles, NewCycle("tick"))

checkAndUpdateNoGap ==
    IF isUpdating
    THEN UNCHANGED <<isUpdating, cycles>>
    ELSE /\ isUpdating' = TRUE
         /\ cycles' = Append(cycles, NewCycle("tick"))

checkAndUpdate ==
    IF isUpdating
    THEN UNCHANGED <<isUpdating, cycles>>
    ELSE IF now - lastUpdateTime < MINIMUM_UPDATE_GAP
         THEN UNCHANGED <<isUpdating, cycles>>
         ELSE /\ isUpdating' = TRUE
              /\ cycles' = Append(cycles, NewCycle("tick"))

TimerTick ==
    /\ updateInterval # NULL
    /\ now >= updateInterval
    /\ updateInterval' = updateInterval + UPDATE_INTERVAL
    /\ checkAndUpdate
    /\ UNCHANGED <<now, plugin, laterVars, keyVars, contractVars, queryVars, storeVars, baseStoreVars, enrichVars, baseVars, lastUpdateTime, initState>>

\* Promise.all of the two fetches settles; on success the batch is built and
\* db.storeMarketData runs (better-sqlite3 is synchronous) before the next await.
FetchSettled ==
    \E c \in 1..Len(cycles), eco \in Responses("base-ecosystem"),
       meme \in Responses("base-meme-coins"), ioFailAt \in 0..2 :
        /\ cycles[c].pc = "fetching"
        /\ LET ecosystemData == fetchCategoryData(eco)
               memeCoinsData == fetchCategoryData(meme)
               timestamp == toISOString(now)
               processedData ==
                   processApiResponse(ecosystemData.data, "base-ecosystem", timestamp)
                   \o processApiResponse(memeCoinsData.data, "base-meme-coins", timestamp)
               \* fetchedOk logs the categories whose request of this attempt succeeded
               settled ==
                   [cycles[c] EXCEPT !.fetchedOk =
                       (IF ecosystemData.ok THEN {"base-ecosystem"} ELSE {})
                       \cup (IF memeCoinsData.ok THEN {"base-meme-coins"} ELSE {})]
           IN IF ~(ecosystemData.ok /\ memeCoinsData.ok)
              THEN /\ ioFailAt = 0
                   /\ catchBlock(c, settled)
                   /\ UNCHANGED storeVars
              ELSE /\ storeMarketData(processedData, ioFailAt)
                   /\ IF storeResult' = "ok"
                      THEN /\ cycles' = [cycles EXCEPT ![c] =
                                           [settled EXCEPT !.pc = "stored", !.commits = @ + 1]]
                           /\ UNCHANGED <<isUpdating, updateInterval, initState, lastUpdateTime>>
                      ELSE catchBlock(c, settled)
        /\ UNCHANGED <<now, plugin, laterVars, keyVars, contractVars, queryVars, baseStoreVars, enrichVars, baseVars>>

\* After the store resolved: lastUpdateTime = Date.now(), then db.cleanOldData(30),
\* which may throw (the DELETE is one statement: it then deletes nothing).
AfterStoreStaleTime(c, cleanThrows) ==
    /\ lastUpdateTime' = lastUpdateTime
    /\ LET next == IF cleanThrows THEN attemptFailed(cycles[c])
                   ELSE [cycles[c] EXCEPT !.pc = "cleaned"]
       IN /\ cycles' = [cycles EXCEPT ![c] = next]
          /\ callerContinues(next)

AfterStoreStep(c, cleanThrows) ==
    /\ lastUpdateTime' = now
    /\ LET next == IF cleanThrows THEN attemptFailed(cycles[c])
                   ELSE [cycles[c] EXCEPT !.pc = "cleaned"]
       IN /\ cycles' = [cycles EXCEPT ![c] = next]
          /\ callerContinues(next)

AfterStore ==
    \E c \in 1..Len(cycles), cleanThrows \in BOOLEAN :
        /\ cycles[c].pc = "stored"
        /\ AfterStoreStep(c, cleanThrows)
        /\ IF cleanThrows THEN UNCHANGED storeVars ELSE cleanOldData(RETENTION_DAYS)
        /\ UNCHANGED <<now, plugin, laterVars, keyVars, contractVars, queryVars, baseStoreVars, enrichVars, baseVars>>

\* After cleanOldData resolved: log and return
AfterClean ==
    \E c \in 1..Len(cycles) :
        /\ cycles[c].pc = "cleaned"
        /\ cycles' = [cycles EXCEPT ![c].pc = "ok", ![c].endedAt = now]
        /\ callerContinues([cycles[c] EXCEPT !.pc = "ok"])
        /\ UNCHANGED <<now, plugin, laterVars, keyVars, contractVars, queryVars, storeVars, baseStoreVars, enrichVars, baseVars, lastUpdateTime>>

\* The setTimeout of the catch block fires: the while loop issues the next attempt
RetryWake ==
    \E c \in 1..Len(cycles) :
        /\ cycles[c].pc = "retryWait"
        /\ now >= cycles[c].wakeAt
        /\ cycles' = [cycles EXCEPT ![c].pc = "fetching", ![c].starts = Append(@, now)]
        /\ UNCHANGED <<now, plugin, laterVars, keyVars, contractVars, queryVars, storeVars, baseStoreVars, enrichVars, baseVars, isUpdating,
                       lastUpdateTime, updateInterval, initState>>

\* Time passes.  Timers fire when they are due, and a resolved promise is
\* continued before any time passes.
TimerDue ==
    \/ updateInterval # NULL /\ updateInterval <= now
    \/ \E c \in 1..Len(cycles) : cycles[c].pc = "retryWait" /\ cycles[c].wakeAt <= now

timePasses(limit) ==
    /\ initState # "new"
    /\ now + TimeStep <= limit
    /\ ~TimerDue
    /\ \A c \in 1..Len(cycles) : cycles[c].pc \notin {"stored", "cleaned"}
    /\ now' = now + TimeStep

SyncTimePasses ==
    /\ timePasses(MaxTime)
    /\ UNCHANGED <<plugin, laterVars, keyVars, contractVars, queryVars, storeVars, baseStoreVars, syncVars, enrichVars, baseVars>>

SyncNext ==
    \/ Initialize
    \/ TimerTick
    \/ FetchSettled
    \/ AfterStore
    \/ AfterClean
    \/ RetryWake
    \/ SyncTimePasses

\* The scheduler stores through the adapter
SyncSpecInit == Init /\ plugin = "adapter"

SpecSync == SyncSpecInit /\ [][SyncNext]_vars

\* The scheduler over two timer periods, with a disk that does not fail (every
\* storeMarketData and cleanOldData call succeeds) and an upstream that answers
\* the two requests of an attempt alike: both succeed or both fail.
GapClockSteps == 26
GapMaxTime == StartTime + GapClockSteps * TimeStep

GapFetchSettled ==
    /\ FetchSettled
    /\ lastStoreArg'.ioFailAt = 0
    /\ \A c \in 1..Len(cycles') : cycles'[c].fetchedOk \in {{}, Categories}

GapAfterStore ==
    /\ AfterStore
    /\ lastClean'.at = now

GapTimePasses ==
    /\ timePasses(GapMaxTime)
    /\ UNCHANGED <<plugin, laterVars, keyVars, contractVars, queryVars, storeVars, baseStoreVars, syncVars,
                   enrichVars, baseVars>>

GapNext ==
    \/ Initialize
    \/ TimerTick
    \/ GapFetchSettled
    \/ GapAfterStore
    \/ AfterClean
    \/ RetryWake
    \/ GapTimePasses

GapSpecInit == Init /\ plugin = "adapter"

SpecGap == GapSpecInit /\ [][GapNext]_vars

\* new MarketDataService(db) with or without COINGECKO_API_KEY in the environment:
\* this.apiKey = process.env.COINGECKO_API_KEY || '', with a warning when it is empty
KeySpecInit ==
    /\ plugin = "adapter"
    /\ Constructed
    /\ coingeckoApiKey \in BOOLEAN

SpecKey == KeySpecInit /\ [][SyncNext]_vars

\* The database file outlives the process: before initialize() it may hold the
\* rows an earlier run of the service stored, here one batch stamped 40 days ago
\* with asset "a" and an asset "z" the upstream no longer lists.
PreviousRunAge == 40
PreviousRunBatch ==
    <<[id |-> "a", timestamp |-> isoDaysBefore(StartTime, PreviousRunAge), current_price |-> 1],
      [id |-> "z", timestamp |-> isoDaysBefore(StartTime, PreviousRunAge), current_price |-> 1]>>

PreviousRun ==
    /\ initState = "new"
    /\ nextRowId = 1
    /\ storeMarketData(PreviousRunBatch, 0)
    /\ UNCHANGED <<now, plugin, laterVars, keyVars, contractVars, queryVars, baseStoreVars, syncVars, enrichVars, baseVars>>

SweepNext ==
    \/ PreviousRun
    \/ SyncNext

SweepSpecInit == Init /\ plugin = "adapter"

SpecSweep == SweepSpecInit /\ [][SweepNext]_vars

(***************************************************************************)
(* plugin-base-market TokenInfoService: processBulkTokenInfo,              *)
(* fetchTokenInfo, handleRateLimit.  One drain pass runs at a time; its    *)
(* position enrichPc is the await it is suspended at ("rateLimit": the     *)
(* 2 s delay, "fetch": the axios request, "backoff": the 60 s timer of     *)
(* handleRateLimit), "loop" at the head of the while loop and "result"     *)
(* when fetchTokenInfo has returned to the loop body.                      *)
(***************************************************************************)
TokenIds == {"x", "y"}
MaxQueue == 3

\* tokenIds arguments: string arrays, the empty string being the falsy
\* element that the loop skips
TokenIdLists == SeqsUpTo(TokenIds \cup {""}, MaxQueue)

\* successCount, failureCount and failedTokenIds are only logged; they
\* saturate here so that a pass that never ends stays finite-state
CountCap == MaxQueue + Max429 + 1

increment(count) == IF count < CountCap THEN count + 1 ELSE CountCap

RateLimitError == "Rate limit hit, will retry"

TokenInfoResponses == {"data", "no-data", "429", "error"}

\* the statement at which the transaction body throws: 0 none,
\* 1 insertTokenInfo, 2 insertCategories, 3 insertDexData
DbFailPoints == 0..3

insertTokenInfo(db, id, failAt) ==
    IF failAt = 1 THEN [db |-> db, threw |-> TRUE]
    ELSE [db |-> [db EXCEPT !.base_token_info = @ \cup {id}], threw |-> FALSE]

insertCategoriesSwallows(ran, id, failAt) ==
    IF ran.threw \/ failAt = 2 THEN ran
    ELSE [ran EXCEPT !.db.token_categories = @ \cup {id}]

insertCategories(ran, id, failAt) ==
    IF ran.threw THEN ran
    ELSE IF failAt = 2 THEN [ran EXCEPT !.threw = TRUE]
    ELSE [ran EXCEPT !.db.token_categories = @ \cup {id}]

insertDexData(ran, id, failAt) ==
    IF ran.threw THEN ran
    ELSE IF failAt = 3 THEN [ran EXCEPT !.threw = TRUE]
    ELSE [ran EXCEPT !.db.token_dex_data = @ \cup {id}]

\* db.transaction(() => { insertTokenInfo; insertCategories; insertDexData })()
tokenInfoTransaction(db, id, failAt) ==
    LET ran == insertDexData(insertCategories(insertTokenInfo(db, id, failAt), id, failAt),
                             id, failAt)
    IN  [db |-> Transaction(db, ran), threw |-> ran.threw]

handleRateLimitPush(queue, id) == Append(queue, id)

\* this.requestQueue.unshift(tokenId), run when the 60 s timer has fired
handleRateLimit(queue, id) == <<id>> \o queue

shiftPeek(queue) == queue

\* the queue that this.requestQueue.shift() leaves
shift(queue) == Tail(queue)

\* processBulkTokenInfo(tokenIds) up to the head of its while loop
processBulkTokenInfo(tokenIds) ==
    /\ tokenIdsArg' = tokenIds
    /\ rateLimited' = {}
    /\ IF Len(tokenIds) = 0
       THEN /\ enrichPc' = "done"
            /\ UNCHANGED <<requestQueue, tokenId, lastResult, successCount, failureCount,
                           failedTokenIds>>
       ELSE /\ requestQueue' = tokenIds
            /\ successCount' = 0
            /\ failureCount' = 0
            /\ failedTokenIds' = <<>>
            /\ lastResult' = "none"
            /\ enrichPc' = "loop"
            /\ UNCHANGED tokenId

StartPass ==
    /\ enrichPc = "idle"
    /\ \E tokenIds \in TokenIdLists, budget \in {Unlimited} \cup (0..Max429) :
        /\ rateLimitsLeft' = budget
        /\ processBulkTokenInfo(tokenIds)
    /\ UNCHANGED <<now, plugin, laterVars, keyVars, contractVars, queryVars, storeVars, baseStoreVars, syncVars, baseVars, enrichDb>>

\* while (this.requestQueue.length > 0) { tokenId = shift(); if (!tokenId) continue; ...
LoopIteration ==
    /\ enrichPc = "loop"
    /\ IF Len(requestQueue) > 0
       THEN /\ tokenId' = Head(requestQueue)
            /\ requestQueue' = shift(requestQueue)
            /\ enrichPc' = IF tokenId' = "" THEN "loop" ELSE "rateLimit"
       ELSE /\ enrichPc' = "done"
            /\ UNCHANGED <<tokenId, requestQueue>>
    /\ UNCHANGED <<now, plugin, laterVars, keyVars, contractVars, queryVars, storeVars, baseStoreVars, syncVars, baseVars, tokenIdsArg, lastResult,
                   successCount, failureCount, failedTokenIds, enrichDb, rateLimitsLeft,
                   rateLimited>>

\* await this.rateLimit()
RateLimitElapsed ==
    /\ enrichPc = "rateLimit"
    /\ enrichPc' = "fetch"
    /\ UNCHANGED <<now, plugin, laterVars, keyVars, contractVars, queryVars, storeVars, baseStoreVars, syncVars, baseVars, requestQueue, tokenIdsArg,
                   tokenId, lastResult, successCount, failureCount, failedTokenIds, enrichDb,
                   rateLimitsLeft, rateLimited>>

\* fetchTokenInfo from the settling of axios.get to its return or, on a 429,
\* to the await in handleRateLimit
FetchResponds ==
    /\ enrichPc = "fetch"
    /\ \E resp \in TokenInfoResponses, failAt \in DbFailPoints :
        /\ resp = "429" => rateLimitsLeft # 0
        /\ resp # "data" => failAt = 0
        /\ IF resp = "429"
           THEN /\ enrichPc' = "backoff"
                /\ rateLimitsLeft' = IF rateLimitsLeft = Unlimited THEN Unlimited
                                     ELSE rateLimitsLeft - 1
                /\ rateLimited' = rateLimited \cup {tokenId}
                /\ UNCHANGED <<lastResult, enrichDb>>
           ELSE /\ enrichPc' = "result"
                /\ UNCHANGED <<rateLimitsLeft, rateLimited>>
                /\ IF resp = "data"
                   THEN LET tx == tokenInfoTransaction(enrichDb, tokenId, failAt)
                        IN  /\ enrichDb' = tx.db
                            /\ lastResult' = IF tx.threw THEN "Database error" ELSE "success"
                   ELSE /\ lastResult' = IF resp = "no-data" THEN "Invalid response format"
                                         ELSE "error"
                        /\ UNCHANGED enrichDb
    /\ UNCHANGED <<now, plugin, laterVars, keyVars, contractVars, queryVars, storeVars, baseStoreVars, syncVars, baseVars, requestQueue, tokenIdsArg,
                   tokenId, successCount, failureCount, failedTokenIds>>

\* the 60 s timer of handleRateLimit fires: unshift, then fetchTokenInfo
\* returns { success: false, error: "Rate limit hit, will retry" }
BackoffElapsed ==
    /\ enrichPc = "backoff"
    /\ requestQueue' = handleRateLimit(requestQueue, tokenId)
    /\ lastResult' = RateLimitError
    /\ enrichPc' = "result"
    /\ UNCHANGED <<now, plugin, laterVars, keyVars, contractVars, queryVars, storeVars, baseStoreVars, syncVars, baseVars, tokenIdsArg, tokenId,
                   successCount, failureCount, failedTokenIds, enrichDb, rateLimitsLeft,
                   rateLimited>>

pushTwice(list, id) == Append(Append(list, id), id)

\* failedTokenIds.push(tokenId)
push(list, id) == Append(list, id)

\* if (result.success) successCount++ else { failureCount++; failedTokenIds.push(tokenId) }
HandleResult ==
    /\ enrichPc = "result"
    /\ IF lastResult = "success"
       THEN /\ successCount' = increment(successCount)
            /\ UNCHANGED <<failureCount, failedTokenIds>>
       ELSE /\ failureCount' = increment(failureCount)
            /\ failedTokenIds' = IF Len(failedTokenIds) < CountCap
                                 THEN push(failedTokenIds, tokenId) ELSE failedTokenIds
            /\ UNCHANGED successCount
    /\ enrichPc' = "loop"
    /\ UNCHANGED <<now, plugin, laterVars, keyVars, contractVars, queryVars, storeVars, baseStoreVars, syncVars, baseVars, requestQueue, tokenIdsArg,
                   tokenId, lastResult, enrichDb, rateLimitsLeft, rateLimited>>

EnrichNext ==
    \/ StartPass
    \/ LoopIteration
    \/ RateLimitElapsed
    \/ FetchResponds
    \/ BackoffElapsed
    \/ HandleResult

EnrichSpecInit == Init /\ plugin = "base-market"

\* timers fire and requests settle; which answer the upstream gives is not
\* constrained
EnrichFairness ==
    /\ WF_vars(StartPass)
    /\ WF_vars(LoopIteration)
    /\ WF_vars(RateLimitElapsed)
    /\ WF_vars(FetchResponds)
    /\ WF_vars(BackoffElapsed)
    /\ WF_vars(HandleResult)

SpecEnrich == EnrichSpecInit /\ [][EnrichNext]_vars /\ EnrichFairness

(***************************************************************************)
(* CoingeckoService.executeWithRateLimit: the promise chain requestQueue.  *)
(* Operation i of operations is the i-th call.  Its state is "queued"      *)
(* (its then-callback waits for the chain), "active" (operation() is       *)
(* pending), "interval" (the setTimeout after its result), "returned"      *)
(* (the promise given to the caller fulfilled), "rejected" (operation()    *)
(* rejected) or "skipped" (the chain was rejected before its callback, so  *)
(* operation() was never called and the caller's promise is rejected with  *)
(* the chain's error).  settled names the operation whose outcome the      *)
(* caller's promise settled with, 0 while it is pending.                   *)
(***************************************************************************)
minRequestInterval == 1000
LimiterTick == minRequestInterval \div 2
MaxOperations == 3
MaxLimiterTicks == 6

\* setTimeout(resolve, this.minRequestInterval) set at time finishedAt is due
noInterval(time, finishedAt) == time >= finishedAt

intervalElapsed(time, finishedAt) == time >= finishedAt + minRequestInterval

\* the promise this.requestQueue: pending while an operation before the end of
\* the chain is unsettled, rejected once one operation has rejected
chainRejected(ops) == \E i \in 1..Len(ops) : ops[i].state \in {"rejected", "skipped"}

chainPending(ops) == \E i \in 1..Len(ops) : ops[i].state \in {"queued", "active", "interval"}

\* the error the chain is rejected with: that of the first operation that rejected
chainError(ops) == CHOOSE i \in 1..Len(ops) : ops[i].state = "rejected"

\* executeWithRateLimit(operation): the callbacks are attached to the chain; on a
\* fulfilled chain operation() is called at once, on a rejected chain never
ExecuteWithRateLimit ==
    /\ plugin = "adapter"
    /\ Len(operations) < MaxOperations
    /\ operations' = Append(operations,
          IF chainRejected(operations)
          THEN [state |-> "skipped", startedAt |-> 0, finishedAt |-> limiterClock,
                settled |-> chainError(operations)]
          ELSE IF chainPending(operations)
          THEN [state |-> "queued", startedAt |-> 0, finishedAt |-> 0, settled |-> 0]
          ELSE [state |-> "active", startedAt |-> limiterClock, finishedAt |-> 0, settled |-> 0])
    /\ UNCHANGED <<now, plugin, limiterClock, passVars, startupVars, categoryVars, cleanupVars, keyVars, contractVars, queryVars,
                   storeVars, baseStoreVars, syncVars, baseVars, enrichVars>>

\* operation() of the active call settles.  Fulfilled: the interval timer is set.
\* Rejected: the chain is rejected, so the callbacks of every queued call are passed
\* over and their promises are rejected with this error
OperationSettles ==
    /\ \E i \in 1..Len(operations), fulfilled \in BOOLEAN :
          /\ operations[i].state = "active"
          /\ operations' =
                IF fulfilled
                THEN [operations EXCEPT ![i].state = "interval", ![i].finishedAt = limiterClock]
                ELSE [j \in 1..Len(operations) |->
                        IF j = i
                        THEN [operations[j] EXCEPT !.state = "rejected", !.finishedAt = limiterClock,
                                                   !.settled = i]
                        ELSE IF operations[j].state = "queued"
                        THEN [operations[j] EXCEPT !.state = "skipped", !.finishedAt = limiterClock,
                                                   !.settled = i]
                        ELSE operations[j]]
    /\ UNCHANGED <<now, plugin, limiterClock, passVars, startupVars, categoryVars, cleanupVars, keyVars, contractVars, queryVars,
                   storeVars, baseStoreVars, syncVars, baseVars, enrichVars>>

IntervalDue ==
    \E i \in 1..Len(operations) :
        operations[i].state = "interval" /\ intervalElapsed(limiterClock, operations[i].finishedAt)

\* The interval timer of call i fires: its promise fulfils with its own result and
\* the callback of the next call runs operation()
IntervalElapsed ==
    /\ \E i \in 1..Len(operations) :
          /\ operations[i].state = "interval"
          /\ intervalElapsed(limiterClock, operations[i].finishedAt)
          /\ operations' =
                [j \in 1..Len(operations) |->
                    IF j = i THEN [operations[j] EXCEPT !.state = "returned", !.settled = i]
                    ELSE IF j = i + 1
                    THEN [operations[j] EXCEPT !.state = "active", !.startedAt = limiterClock]
                    ELSE operations[j]]
    /\ UNCHANGED <<now, plugin, limiterClock, passVars, startupVars, categoryVars, cleanupVars, keyVars, contractVars, queryVars,
                   storeVars, baseStoreVars, syncVars, baseVars, enrichVars>>

\* time passes while no timer is due
LimiterTimePasses ==
    /\ plugin = "adapter"
    /\ ~IntervalDue
    /\ limiterClock < MaxLimiterTicks * LimiterTick
    /\ limiterClock' = limiterClock + LimiterTick
    /\ UNCHANGED <<now, plugin, operations, passVars, startupVars, categoryVars, cleanupVars, keyVars, contractVars,
                   queryVars, storeVars, baseStoreVars, syncVars, baseVars, enrichVars>>

LimiterNext ==
    \/ ExecuteWithRateLimit
    \/ OperationSettles
    \/ IntervalElapsed
    \/ LimiterTimePasses

LimiterSpecInit == Init /\ plugin = "adapter"

SpecLimiter == LimiterSpecInit /\ [][LimiterNext]_vars

(***************************************************************************)
(* TokenInfoService with several callers of processBulkTokenInfo and       *)
(* retryFailedTokens.  Each call is a record of passes with its local      *)
(* variables and the await it is suspended at ("rateLimit", "fetch",       *)
(* "backoff"); this.requestQueue and the database are shared.  A call runs *)
(* from one await to the next without interruption.                        *)
(***************************************************************************)
otherThanPasses == <<keyVars, contractVars, startupVars, limiterVars, categoryVars, cleanupVars>>

MaxPasses == 2
MaxPass429 == 1
PassTokenLists == {<<"x">>, <<"x", "y">>, <<"y">>}

\* The head of the while loop for call p with locals pass: shift the next
\* identifier and await rateLimit(), or leave the loop when the queue is empty
whileLoop(p, pass, queue) ==
    IF Len(queue) > 0
    THEN /\ requestQueue' = shift(queue)
         /\ passes' = [passes EXCEPT ![p] = [pass EXCEPT !.tokenId = Head(queue),
                                                         !.pc = "rateLimit"]]
    ELSE /\ requestQueue' = queue
         /\ passes' = [passes EXCEPT ![p] = [pass EXCEPT !.pc = "done"]]

\* processBulkTokenInfo(tokenIds) or retryFailedTokens(tokenIds), called whatever
\* the other calls are doing: this.requestQueue = [...tokenIds], then the loop
PassCall ==
    /\ plugin = "base-market"
    /\ Len(passes) < MaxPasses
    /\ \E tokenIds \in PassTokenLists :
          LET pass == [tokenIds |-> tokenIds, pc |-> "loop", tokenId |-> "",
                       successCount |-> 0, failureCount |-> 0, failedTokenIds |-> <<>>,
                       rateLimits |-> 0]
              p == Len(passes) + 1
          IN  /\ requestQueue' = shift(tokenIds)
              /\ passes' = Append(passes, [pass EXCEPT !.tokenId = Head(tokenIds),
                                                       !.pc = "rateLimit"])
    /\ UNCHANGED <<now, plugin, otherThanPasses, queryVars, storeVars, baseStoreVars,
                   syncVars, baseVars, enrichPc, tokenIdsArg, tokenId, lastResult, successCount,
                   failureCount, failedTokenIds, enrichDb, rateLimitsLeft, rateLimited>>

\* the timer of rateLimit() fires: fetchTokenInfo issues its request
PassRateLimitElapsed ==
    /\ \E p \in 1..Len(passes) :
          /\ passes[p].pc = "rateLimit"
          /\ passes' = [passes EXCEPT ![p].pc = "fetch"]
    /\ UNCHANGED <<now, plugin, otherThanPasses, queryVars, storeVars, baseStoreVars,
                   syncVars, baseVars, enrichVars>>

\* the request of call p settles: the transaction and the count on data, the
\* failure count on an error, then the loop; the backoff timer on a 429
PassFetchResponds ==
    /\ \E p \in 1..Len(passes), resp \in {"data", "error", "429"} :
          /\ passes[p].pc = "fetch"
          /\ resp = "429" => passes[p].rateLimits < MaxPass429
          /\ IF resp = "429"
             THEN /\ passes' = [passes EXCEPT ![p].pc = "backoff", ![p].rateLimits = @ + 1]
                  /\ UNCHANGED <<requestQueue, enrichDb>>
             ELSE IF resp = "data"
             THEN /\ enrichDb' = tokenInfoTransaction(enrichDb, passes[p].tokenId, 0).db
                  /\ whileLoop(p, [passes[p] EXCEPT !.successCount = @ + 1], requestQueue)
             ELSE /\ UNCHANGED enrichDb
                  /\ whileLoop(p, [passes[p] EXCEPT !.failureCount = @ + 1,
                                       !.failedTokenIds = push(@, passes[p].tokenId)],
                               requestQueue)
    /\ UNCHANGED <<now, plugin, otherThanPasses, queryVars, storeVars, baseStoreVars,
                   syncVars, baseVars, enrichPc, tokenIdsArg, tokenId, lastResult, successCount,
                   failureCount, failedTokenIds, rateLimitsLeft, rateLimited>>

\* the 60 s timer of handleRateLimit fires in call p: unshift, the failure
\* count, then the loop
PassBackoffElapsed ==
    /\ \E p \in 1..Len(passes) :
          /\ passes[p].pc = "backoff"
          /\ whileLoop(p, [passes[p] EXCEPT !.failureCount = @ + 1,
                               !.failedTokenIds = push(@, passes[p].tokenId)],
                       handleRateLimit(requestQueue, passes[p].tokenId))
    /\ UNCHANGED <<now, plugin, otherThanPasses, queryVars, storeVars, baseStoreVars,
                   syncVars, baseVars, enrichPc, tokenIdsArg, tokenId, lastResult, successCount,
                   failureCount, failedTokenIds, enrichDb, rateLimitsLeft, rateLimited>>

\* cleanup(): this.requestQueue = []
CleanupCall ==
    /\ plugin = "base-market"
    /\ passes # <<>>
    /\ requestQueue # <<>>
    /\ requestQueue' = <<>>
    /\ UNCHANGED <<now, plugin, passVars, otherThanPasses, queryVars, storeVars,
                   baseStoreVars, syncVars, baseVars, enrichPc, tokenIdsArg, tokenId, lastResult,
                   successCount, failureCount, failedTokenIds, enrichDb, rateLimitsLeft,
                   rateLimited>>

PassesNext ==
    \/ PassCall
    \/ PassRateLimitElapsed
    \/ PassFetchResponds
    \/ PassBackoffElapsed
    \/ CleanupCall

PassesSpecInit == Init /\ plugin = "base-market"

SpecPasses == PassesSpecInit /\ [][PassesNext]_vars

(***************************************************************************)
(* TokenInfoService.initialize, from the first market data to the start    *)
(* of the pass: getTokensNeedingInfo and MarketDataService.getAllTokenIds. *)
(***************************************************************************)
\* the arrays that hold the elements of S, each once, in some order
Orderings(S) == {q \in SeqsUpTo(S, Cardinality(S)) :
                    Len(q) = Cardinality(S) /\ {q[i] : i \in 1..Len(q)} = S}

\* getAllTokenIds(): SELECT DISTINCT id FROM base_market_data
\*                   WHERE timestamp = (SELECT MAX(timestamp) FROM base_market_data)
getAllTokenIds(table) == {r.id : r \in baseLatest(table)}

\* getTokensNeedingInfo: allTokenIds.filter(id => !existingTokensSet.has(id)),
\* or [] when a query throws
getTokensNeedingInfo(table, tokenInfo, queryThrows) ==
    IF queryThrows THEN {}
    ELSE {id \in getAllTokenIds(table) : id \notin tokenInfo}

\* initialize, once getAllTokenIds() has returned a token: tokensToProcess, then
\* processBulkTokenInfo(tokensToProcess) unless the array is empty
SeedQueue ==
    /\ plugin = "base-market"
    /\ enrichPc = "idle"
    /\ getAllTokenIds(base_market_data) # {}
    /\ \E queryThrows \in BOOLEAN :
         \E tokensToProcess \in Orderings(getTokensNeedingInfo(base_market_data,
                                              enrichDb.base_token_info, queryThrows)) :
            processBulkTokenInfo(tokensToProcess)
    /\ UNCHANGED <<now, plugin, laterVars, keyVars, contractVars, queryVars, storeVars, baseStoreVars, syncVars, baseVars, enrichDb,
                   rateLimitsLeft>>

\* An Asset Detail row written by an earlier pass: the transaction of saveTokenInfo
DetailStored ==
    /\ plugin = "base-market"
    /\ enrichPc = "idle"
    /\ \E id \in BaseTokenIds :
          /\ id \notin enrichDb.base_token_info
          /\ enrichDb' = tokenInfoTransaction(enrichDb, id, 0).db
    /\ UNCHANGED <<now, plugin, laterVars, keyVars, contractVars, queryVars, storeVars, baseStoreVars, syncVars, baseVars, requestQueue,
                   enrichPc, tokenIdsArg, tokenId, lastResult, successCount, failureCount,
                   failedTokenIds, rateLimitsLeft, rateLimited>>

(***************************************************************************)
(* TokenInfoService.initialize waiting for the first market data: the poll  *)
(* loop on MarketDataService.getAllTokenIds().                              *)
(***************************************************************************)
maxAttempts == 24

\* while (!hasMarketData && attempts < maxAttempts)
pollsOnceMore(hasMarketData, attempts) == ~hasMarketData /\ attempts <= maxAttempts

pollAgain(hasMarketData, attempts) == ~hasMarketData /\ attempts < maxAttempts

\* initialize up to the loop: the tables, the API key, the MarketDataService
StartupBegin ==
    /\ plugin = "base-market"
    /\ startup.pc = "new"
    /\ startup' = [startup EXCEPT !.pc = IF pollAgain(FALSE, 0) THEN "poll" ELSE "failed",
                                  !.error = IF pollAgain(FALSE, 0) THEN "none" ELSE "timeout"]
    /\ UNCHANGED <<now, plugin, passVars, limiterVars, categoryVars, cleanupVars, keyVars, contractVars, queryVars,
                   storeVars, baseStoreVars, syncVars, baseVars, enrichVars>>

\* One turn of the loop: getAllTokenIds(); with a token the loop ends and
\* initialize goes on to getTokensNeedingInfo and processBulkTokenInfo, with
\* none it sleeps 5 s; a throwing query ends initialize with that error
StartupPoll ==
    /\ plugin = "base-market"
    /\ startup.pc = "poll"
    /\ enrichPc = "idle"
    /\ \E getAllThrows \in BOOLEAN, queryThrows \in BOOLEAN :
         LET tokenIds == getAllTokenIds(base_market_data)
             polled == [startup EXCEPT !.polls = @ + 1]
         IN  IF getAllThrows
             THEN /\ startup' = [polled EXCEPT !.pc = "failed", !.error = "query"]
                  /\ UNCHANGED <<requestQueue, enrichPc, tokenIdsArg, tokenId, lastResult,
                                 successCount, failureCount, failedTokenIds, rateLimited>>
             ELSE IF tokenIds # {}
             THEN /\ startup' = [polled EXCEPT !.pc = "seeded"]
                  /\ \E tokensToProcess \in Orderings(getTokensNeedingInfo(base_market_data,
                                                      enrichDb.base_token_info, queryThrows)) :
                        processBulkTokenInfo(tokensToProcess)
             ELSE /\ startup' = [polled EXCEPT !.pc = "sleep"]
                  /\ UNCHANGED <<requestQueue, enrichPc, tokenIdsArg, tokenId, lastResult,
                                 successCount, failureCount, failedTokenIds, rateLimited>>
    /\ UNCHANGED <<now, plugin, passVars, limiterVars, categoryVars, cleanupVars, keyVars, contractVars, queryVars,
                   storeVars, baseStoreVars, syncVars, baseVars, enrichDb, rateLimitsLeft>>

\* The 5 s timer fires: attempts++, then the loop condition, and the throw
\* after the loop when hasMarketData is still false
StartupSleepElapsed ==
    /\ plugin = "base-market"
    /\ startup.pc = "sleep"
    /\ LET attempts == startup.attempts + 1
       IN  startup' = IF pollAgain(FALSE, attempts)
                      THEN [startup EXCEPT !.attempts = attempts, !.pc = "poll"]
                      ELSE [startup EXCEPT !.attempts = attempts, !.pc = "failed",
                                           !.error = "timeout"]
    /\ UNCHANGED <<now, plugin, passVars, limiterVars, categoryVars, cleanupVars, keyVars, contractVars, queryVars,
                   storeVars, baseStoreVars, syncVars, baseVars, enrichVars>>

StartupNext ==
    \/ BaseSnapshotStore
    \/ DetailStored
    \/ StartupBegin
    \/ StartupPoll
    \/ StartupSleepElapsed

StartupSpecInit == Init /\ plugin = "base-market"

SpecStartup == StartupSpecInit /\ [][StartupNext]_vars

SeedNext ==
    \/ BaseSnapshotStore
    \/ DetailStored
    \/ SeedQueue

SeedSpecInit == Init /\ plugin = "base-market"

SpecSeed == SeedSpecInit /\ [][SeedNext]_vars

(***************************************************************************)
(* plugin-base-market MarketDataService: initialize, the setInterval       *)
(* callback and fetchMarketData.  A cycle is one run of the two            *)
(* fetchMarketData calls ("base-meme-coins", then "base-ecosystem"), made  *)
(* by initialize or by a timer callback; its pc is the await it is         *)
(* suspended at ("request": axios.get, "delay": the 1.1 s timer between    *)
(* pages).  storeMarketData has no await inside, so the store, the return  *)
(* of fetchMarketData and the first request of the next call run in the    *)
(* step that receives the last page.                                       *)
(***************************************************************************)
PER_PAGE == 250

COLLECTION_INTERVAL == 60 * 60 * 1000

CategoryOrder == <<"base-meme-coins", "base-ecosystem">>

MaxPages == 2
MaxBaseHours == 2

\* the first cycle is the one of initialize; the timer adds one an hour
MaxBaseCycles == MaxBaseHours + 1

\* how many records the upstream has in a category: full pages followed
\* by a page of 0 or 1 records
UpstreamSizes == {full * PER_PAGE + short : full \in 0..(MaxPages - 1), short \in {0, 1}}

\* the array in the response to a request for a page: records are numbered
\* in the order in which the upstream lists them
UpstreamPage(size, page) ==
    LET first == (page - 1) * PER_PAGE
        count == IF size - first >= PER_PAGE THEN PER_PAGE
                 ELSE IF size - first > 0 THEN size - first ELSE 0
    IN  [i \in 1..count |-> first + i]

\* the sizes the scheduler is run against: "base-meme-coins" has one page, or a
\* full page and an empty one; "base-ecosystem" has one page
SchedulerUpstreamSizes == {1, PER_PAGE}

PageResponses == {"array", "not-an-array", "error"}

lastPageInclusive(length) == length <= PER_PAGE

\* if (response.data.length < 250) hasMoreData = false
lastPage(length) == length < PER_PAGE

\* allTokens.map(token => ({ ...token, category, timestamp }))
withCategoryAndTimestamp(allTokens, category, timestamp) ==
    [i \in 1..Len(allTokens) |->
        [id |-> allTokens[i], category |-> category, timestamp |-> timestamp,
         complete |-> TRUE]]

\* fetchMarketData(category) up to its first await: the request for page 1
startFetch(cy, categoryIndex) ==
    [cy EXCEPT !.category = categoryIndex, !.pc = "request", !.currentPage = 1,
               !.allTokens = <<>>, !.requests = <<1>>]

NewBaseCycle(caller) ==
    startFetch([caller |-> caller, category |-> 1, pc |-> "request", currentPage |-> 1,
                allTokens |-> <<>>, requests |-> <<>>, fetches |-> <<>>,
                result |-> [success |-> FALSE, error |-> "", data |-> <<>>],
                startedAt |-> now], 1)

\* fetchMarketData returns result to the try block of its caller, which
\* goes on to the next category or ends
fetchReturns(cy, reachedStore, result) ==
    LET summary == [category |-> CategoryOrder[cy.category], requests |-> cy.requests,
                    reachedStore |-> reachedStore, success |-> result.success]
        returned == [cy EXCEPT !.fetches = Append(@, summary), !.result = result]
    IN  IF cy.caller # "direct" /\ cy.category < Len(CategoryOrder)
        THEN startFetch(returned, cy.category + 1)
        ELSE [returned EXCEPT !.pc = "done"]

\* what initialize does when its two initial fetches have returned: setInterval
baseCallerContinues(cy) ==
    IF cy.caller = "initialize" /\ cy.pc = "done"
    THEN /\ dataCollectionInterval' = now + COLLECTION_INTERVAL
         /\ baseInit' = "running"
    ELSE UNCHANGED <<dataCollectionInterval, baseInit>>

BaseInitialize ==
    /\ baseInit = "new"
    /\ \E key \in BOOLEAN, size \in SchedulerUpstreamSizes :
        /\ upstreamSize' = [upstreamSize EXCEPT !["base-meme-coins"] = size,
                                                !["base-ecosystem"] = 1]
        /\ IF ~key
           THEN /\ baseInit' = "failed"
                /\ UNCHANGED <<apiKey, baseCycles>>
           ELSE /\ apiKey' = TRUE
                /\ baseInit' = "initial-fetch"
                /\ baseCycles' = Append(baseCycles, NewBaseCycle("initialize"))
    /\ UNCHANGED <<now, plugin, laterVars, keyVars, contractVars, queryVars, storeVars, baseStoreVars, syncVars, enrichVars,
                   dataCollectionInterval>>

\* a call of fetchMarketData(category) on its own, once per category and one
\* after the other; calls that overlap are those of the timer
FetchMarketDataCall ==
    /\ baseInit = "new"
    /\ \E categoryIndex \in DOMAIN CategoryOrder, size \in UpstreamSizes :
        /\ \A c \in DOMAIN baseCycles : baseCycles[c].category # categoryIndex
        /\ \A c \in DOMAIN baseCycles : baseCycles[c].pc = "done"
        /\ upstreamSize' = [upstreamSize EXCEPT ![CategoryOrder[categoryIndex]] = size]
        /\ apiKey' = TRUE
        /\ baseCycles' = Append(baseCycles, startFetch(NewBaseCycle("direct"), categoryIndex))
    /\ UNCHANGED <<now, plugin, laterVars, keyVars, contractVars, queryVars, storeVars, baseStoreVars, syncVars, enrichVars, baseInit,
                   dataCollectionInterval>>

\* the setInterval callback: no condition on the cycles that are running
BaseTimerTick ==
    /\ dataCollectionInterval # NULL
    /\ now >= dataCollectionInterval
    /\ Len(baseCycles) < MaxBaseCycles
    /\ dataCollectionInterval' = dataCollectionInterval + COLLECTION_INTERVAL
    /\ baseCycles' = Append(baseCycles, NewBaseCycle("timer"))
    /\ UNCHANGED <<now, plugin, laterVars, keyVars, contractVars, queryVars, storeVars, baseStoreVars, syncVars, enrichVars, baseInit,
                   apiKey, upstreamSize>>

storeRunsOnError(resp, length) == resp # "not-an-array"

\* storeMarketData is reached only past the loop: every page was an array
\* and the last one was short
storeRuns(resp, length) == resp = "array" /\ lastPage(length)

\* the axios.get of cycle c settles
PageResponds ==
    \E c \in DOMAIN baseCycles, resp \in PageResponses, ioFailAt \in {0, 1} :
        LET cy == baseCycles[c]
            category == CategoryOrder[cy.category]
            page == UpstreamPage(upstreamSize[category], cy.currentPage)
            allTokens == cy.allTokens \o page
            data == withCategoryAndTimestamp(allTokens, category, now \div 1000)
            stored == baseStoreMarketData(base_market_data, data, ioFailAt)
            nextCy ==
                IF resp = "error"
                THEN fetchReturns(cy, FALSE,
                                  [success |-> FALSE, error |-> "error", data |-> <<>>])
                ELSE IF resp = "not-an-array"
                THEN fetchReturns(cy, FALSE, [success |-> FALSE,
                                  error |-> "Invalid response format", data |-> <<>>])
                ELSE IF ~lastPage(Len(page))
                THEN [cy EXCEPT !.allTokens = allTokens, !.currentPage = @ + 1,
                                !.pc = "delay"]
                ELSE IF stored.threw
                THEN fetchReturns([cy EXCEPT !.allTokens = allTokens], TRUE,
                                  [success |-> FALSE, error |-> "Database error",
                                   data |-> <<>>])
                ELSE fetchReturns([cy EXCEPT !.allTokens = allTokens], TRUE,
                                  [success |-> TRUE, error |-> "", data |-> data])
            reachesStore == storeRuns(resp, Len(page))
        IN  /\ cy.pc = "request"
            /\ ioFailAt <= (IF reachesStore THEN Len(data) ELSE 0)
            /\ IF reachesStore
               THEN /\ base_market_data' = stored.db
                    /\ baseStoreResult' = IF stored.threw THEN "error" ELSE "ok"
                    /\ lastBaseStoreArg' = [data |-> data, ioFailAt |-> ioFailAt]
               ELSE UNCHANGED baseStoreVars
            /\ baseCycles' = [baseCycles EXCEPT ![c] = nextCy]
            /\ baseCallerContinues(nextCy)
            /\ UNCHANGED <<now, plugin, laterVars, keyVars, contractVars, queryVars, storeVars, syncVars, enrichVars, apiKey, upstreamSize>>

\* the 1.1 s timer between two pages fires: the loop requests currentPage
PageDelayElapsed ==
    \E c \in DOMAIN baseCycles :
        /\ baseCycles[c].pc = "delay"
        /\ baseCycles' = [baseCycles EXCEPT ![c].pc = "request",
                                            ![c].requests = Append(@, baseCycles[c].currentPage)]
        /\ UNCHANGED <<now, plugin, laterVars, keyVars, contractVars, queryVars, storeVars, baseStoreVars, syncVars, enrichVars, baseInit,
                       apiKey, upstreamSize, dataCollectionInterval>>

\* an hour passes; a due timer callback or page delay runs before more time passes
BaseTimePasses ==
    /\ baseInit \in {"initial-fetch", "running"}
    /\ now + COLLECTION_INTERVAL <= StartTime + MaxBaseHours * COLLECTION_INTERVAL
    /\ ~(dataCollectionInterval # NULL /\ now >= dataCollectionInterval)
    /\ \A c \in DOMAIN baseCycles : baseCycles[c].pc # "delay"
    /\ now' = now + COLLECTION_INTERVAL
    /\ UNCHANGED <<plugin, laterVars, keyVars, contractVars, queryVars, storeVars, baseStoreVars, syncVars, enrichVars, baseVars>>

BaseNext ==
    \/ BaseInitialize
    \/ BaseTimerTick
    \/ PageResponds
    \/ PageDelayElapsed
    \/ BaseTimePasses

BaseSpecInit == Init /\ plugin = "base-market"

SpecBase == BaseSpecInit /\ [][BaseNext]_vars

FetchNext ==
    \/ FetchMarketDataCall
    \/ PageResponds
    \/ PageDelayElapsed

SpecFetch == BaseSpecInit /\ [][FetchNext]_vars

(***************************************************************************)
(* Claims about the store                                                  *)
(***************************************************************************)
\* The market_data rows as a bag of (asset, timestamp): how many rows each pair has
Snapshots(md) ==
    [k \in {<<r.coin_id, r.timestamp>> : r \in md} |->
        Cardinality({r \in md : <<r.coin_id, r.timestamp>> = k})]

Stamped(data) == \A i \in 1..Len(data) : data[i].timestamp # NoTimestamp

CallFails(call) ==
    \/ call.ioFailAt # 0
    \/ \E i \in 1..Len(call.data) : insertMarketDataFails(call.data[i])

BaseCallFails(call) ==
    \/ call.ioFailAt # 0
    \/ \E i \in 1..Len(call.data) : baseInsertFails(call.data[i])

C9_AllOrNothing ==
    [][/\ CallFails(lastStoreArg') =>
            /\ storeResult' = "error"
            /\ coins' = coins /\ market_data' = market_data /\ nextRowId' = nextRowId
       /\ BaseCallFails(lastBaseStoreArg') =>
            /\ baseStoreResult' = "error"
            /\ base_market_data' = base_market_data]_vars

\* C9 witness: a call failed at its second record, after the first one was written,
\* on a store that already held rows
W_C9_FailedAfterPartialWrite ==
    /\ storeResult = "error"
    /\ Len(lastStoreArg.data) = 2
    /\ ~insertMarketDataFails(lastStoreArg.data[1])
    /\ lastStoreArg.ioFailAt # 1
    /\ market_data # {}

(***************************************************************************)
(* Claims about the scheduler of plugin-coingecko                          *)
(***************************************************************************)
Running(cy) == cy.pc \notin {"ok", "failed"}

\* The scheduler of plugin-coingecko never has two updateMarketData calls in flight
SyncAtMostOneCycle == Cardinality({c \in 1..Len(cycles) : Running(cycles[c])}) <= 1

\* C2: a cycle in which every fetch+store attempt failed made exactly MAX_RETRIES
\* attempts, slept at least RETRY_DELAY between an attempt's failure and the next
\* attempt, failed at the moment its last attempt failed, and left lastUpdateTime
\* as it was when the cycle started.
C2_RetryExhaustion ==
    \A c \in 1..Len(cycles) :
        (cycles[c].pc = "failed" /\ cycles[c].commits = 0) =>
            /\ Len(cycles[c].starts) = MAX_RETRIES
            /\ Len(cycles[c].ends) = MAX_RETRIES
            /\ \A k \in 1..(MAX_RETRIES - 1) :
                   cycles[c].starts[k + 1] - cycles[c].ends[k] >= RETRY_DELAY
            /\ cycles[c].endedAt = cycles[c].ends[MAX_RETRIES]
            /\ (c = Len(cycles) => lastUpdateTime = cycles[c].lutAtStart)

\* C2 witness: a cycle started by a timer tick has exhausted its attempts
W_C2_TickCycleExhausted ==
    \E c \in 1..Len(cycles) :
        /\ cycles[c].caller = "tick"
        /\ cycles[c].pc = "failed"
        /\ cycles[c].commits = 0
        /\ lastUpdateTime = cycles[c].lutAtStart

\* C4: lastUpdateTime changes only in the step that follows a committed
\* storeMarketData call, and a step in which a fetch, validation or store error
\* ends an attempt leaves it unchanged.
C4_LastUpdateOnlyAfterStore ==
    [][/\ lastUpdateTime' # lastUpdateTime =>
            /\ storeResult = "ok"
            /\ \E c \in 1..Len(cycles) : cycles[c].pc = "stored" /\ cycles'[c].pc # "stored"
       /\ \A c \in 1..Len(cycles) :
            (cycles[c].pc = "fetching" /\ cycles'[c].retryCount > cycles[c].retryCount)
                => lastUpdateTime' = lastUpdateTime]_vars

\* C4 witness: lastUpdateTime was set by a cycle that had failed attempts before
W_C4_UpdatedAfterRetry ==
    \E c \in 1..Len(cycles) :
        /\ cycles[c].retryCount > 0
        /\ cycles[c].commits = 1
        /\ cycles[c].pc = "cleaned"
        /\ lastUpdateTime = now
        /\ lastUpdateTime # cycles[c].lutAtStart

\* C5 (as claimed): once a cycle has exhausted its attempts a next tick is
\* scheduled, also when it was the cycle run by initialize, and the tick that
\* follows a cycle whose attempts all failed starts a new cycle with retryCount 0.
C5_FailedCycleRetriedAtNextTick ==
    /\ [](\A c \in 1..Len(cycles) : cycles[c].pc = "failed" => updateInterval # NULL)
    /\ [][(/\ updateInterval # NULL /\ updateInterval' # updateInterval
           /\ cycles # <<>>
           /\ cycles[Len(cycles)].pc = "failed" /\ cycles[Len(cycles)].commits = 0)
          => (/\ Len(cycles') = Len(cycles) + 1
              /\ cycles'[Len(cycles')].retryCount = 0
              /\ cycles'[Len(cycles')].pc = "fetching")]_vars

(***************************************************************************)
(* Claims about the enrichment pass of TokenInfoService                    *)
(***************************************************************************)

\* C6: a 429 answer for an identifier is not counted as a failure: when the
\* loop handles the result of a rate-limited fetch, failureCount and
\* failedTokenIds stay as they are.
C6_RateLimitNotCountedAsFailure ==
    [][(enrichPc = "result" /\ lastResult = RateLimitError)
         => (failureCount' = failureCount /\ failedTokenIds' = failedTokenIds)]_vars

\* C7: when the fetch for X is answered 429, the backoff timer puts X at the
\* front of the queue, the next iteration of the loop dequeues X again, and
\* when the retry of X succeeds its detail row is written, the success is
\* counted, and the row stays to the end of the pass.
C7_RateLimitRequeue ==
    [][/\ (enrichPc = "backoff") => (Head(requestQueue') = tokenId)
       /\ (enrichPc = "loop" /\ lastResult = RateLimitError)
            => (enrichPc' = "rateLimit" /\ tokenId' = tokenId)
       /\ (enrichPc = "fetch" /\ enrichPc' = "result" /\ tokenId \in rateLimited
             /\ lastResult' = "success")
            => (tokenId \in enrichDb'.base_token_info)
       /\ (enrichPc = "result" /\ tokenId \in rateLimited /\ lastResult = "success")
            => (successCount' = successCount + 1)
       /\ enrichDb.base_token_info \subseteq enrichDb'.base_token_info]_vars

W_C7_RetriedAfterRateLimit ==
    /\ enrichPc = "done"
    /\ tokenIdsArg = <<"x", "y">>
    /\ rateLimited = {"x"}
    /\ successCount = 2
    /\ "x" \in enrichDb.base_token_info

PassRunning == enrichPc \notin {"idle", "done"}

PassDone == enrichPc = "done" /\ requestQueue = <<>>

\* C8 as stated: every running pass ends with an empty queue, whatever the
\* upstream answers.
C8_EveryPassTerminates == PassRunning ~> PassDone

\* C8: every running pass ends with an empty queue provided the upstream
\* answers 429 only finitely often.
C8_PassTerminatesUnlessRateLimitedForever ==
    (PassRunning /\ rateLimitsLeft # Unlimited) ~> PassDone

W_C8_DoneAfterRateLimits ==
    /\ PassDone
    /\ Len(tokenIdsArg) >= 2
    /\ rateLimited # {}
    /\ rateLimitsLeft = 0

(***************************************************************************)
(* Claims about the scheduler and fetcher of plugin-base-market            *)
(***************************************************************************)

BaseCyclesInFlight == {c \in DOMAIN baseCycles : baseCycles[c].pc # "done"}

\* C3: at every moment at most one sync cycle is in flight, in the scheduler
\* of plugin-coingecko and in the one of plugin-base-market: a timer tick
\* that fires while a cycle is running starts no second cycle.
C3_AtMostOneCycleInFlight ==
    /\ SyncAtMostOneCycle
    /\ Cardinality(BaseCyclesInFlight) <= 1

\* the records of pages 1..n of a category of the given size, in order
RECURSIVE PagesUpTo(_, _)
PagesUpTo(size, n) ==
    IF n = 0 THEN <<>> ELSE PagesUpTo(size, n - 1) \o UpstreamPage(size, n)

\* C10: when the upstream answers pages 1..N with 250 records and page N+1
\* with fewer, a fetchMarketData call whose requests are all answered has
\* requested exactly the pages 1, 2, ..., N+1 in this order, and what it
\* hands to storeMarketData, and returns when the store succeeds, is the
\* concatenation of the records of these pages, each with the category and
\* the timestamp of the call.
C10_PaginationTermination ==
    [][\A c \in DOMAIN baseCycles :
          LET before == baseCycles[c].fetches
              after == baseCycles'[c].fetches
              fetch == after[Len(after)]
              size == upstreamSize[fetch.category]
              N == size \div PER_PAGE
              records == PagesUpTo(size, N + 1)
              passedOn == [i \in 1..Len(records) |->
                              [id |-> records[i], category |-> fetch.category,
                               timestamp |-> now \div 1000, complete |-> TRUE]]
          IN  (Len(after) > Len(before) /\ fetch.reachedStore)
                => /\ fetch.requests = [p \in 1..(N + 1) |-> p]
                   /\ lastBaseStoreArg'.data = passedOn
                   /\ fetch.success => baseCycles'[c].result.data = passedOn]_vars

W_C10_TwoPagesFetched ==
    \E c \in DOMAIN baseCycles :
        \E k \in DOMAIN baseCycles[c].fetches :
            LET fetch == baseCycles[c].fetches[k]
            IN  /\ fetch.success
                /\ fetch.requests = <<1, 2>>
                /\ upstreamSize[fetch.category] = PER_PAGE + 1
                /\ Len(baseCycles[c].result.data) = PER_PAGE + 1
                /\ Cardinality(base_market_data) >= PER_PAGE + 1

\* C11: when a page request of a fetch fails (rejected request or a response
\* that is not an array), the step in which the fetch ends writes nothing to
\* the store, whatever pages it had received, and the fetch returns a
\* failure; in plugin-coingecko an attempt whose fetch fails leaves coins and
\* market_data as they were.
C11_NoPartialCommit ==
    [][/\ \A c \in DOMAIN baseCycles :
            LET before == baseCycles[c].fetches
                after == baseCycles'[c].fetches
                fetch == after[Len(after)]
            IN  (Len(after) > Len(before) /\ ~fetch.reachedStore)
                  => /\ base_market_data' = base_market_data
                     /\ ~fetch.success
                     /\ ~baseCycles'[c].result.success
                     /\ baseCycles'[c].result.data = <<>>
       /\ \A c \in DOMAIN cycles :
            (cycles[c].pc = "fetching" /\ Len(cycles'[c].ends) > Len(cycles[c].ends))
              => (market_data' = market_data /\ coins' = coins)]_vars

W_C11_FailedOnSecondPage ==
    \E c \in DOMAIN baseCycles :
        \E k \in DOMAIN baseCycles[c].fetches :
            LET fetch == baseCycles[c].fetches[k]
            IN  /\ fetch.requests = <<1, 2>>
                /\ ~fetch.reachedStore
                /\ ~fetch.success
                /\ base_market_data = {}

\* every cycle of plugin-base-market that has ended has fetched both categories
BaseEveryCategoryFetched ==
    \A c \in DOMAIN baseCycles :
        (baseCycles[c].caller # "direct" /\ baseCycles[c].pc = "done")
          => [k \in DOMAIN baseCycles[c].fetches |-> baseCycles[c].fetches[k].category]
               = CategoryOrder

\* C12: a failure while fetching one category does not keep the data of the
\* other category out of the store: a cycle of plugin-coingecko that ends
\* without having stored anything had no category fetched successfully in
\* its last attempt, and a cycle of plugin-base-market fetches both.
C12_CategoryFailureIsolated ==
    /\ BaseEveryCategoryFetched
    /\ \A c \in DOMAIN cycles :
          (cycles[c].pc = "failed" /\ cycles[c].commits = 0) => cycles[c].fetchedOk = {}

(***************************************************************************)
(* Claims about retention                                                  *)
(***************************************************************************)

lastStoredRow(rows) == CHOOSE r \in rows : \A q \in rows : q.rowid <= r.rowid
trackedIds(rows) ==
    IF rows = {} THEN {}
    ELSE {q.coin_id : q \in {x \in rows : x.timestamp = lastStoredRow(rows).timestamp}}
\* r is a most recent snapshot of its asset among rows
isLatestOf(r, rows) ==
    \A q \in rows : q.coin_id = r.coin_id => ~textLess(r.timestamp, q.timestamp)

\* C14: the retention sweep never deletes the latest snapshot row of an asset that
\* is still tracked: whatever sync cycles and cleanup passes run, no step removes
\* from market_data the most recent row of an asset of the most recently stored batch.
C14_SweepKeepsLatest ==
    [][\A r \in market_data :
          (r.coin_id \in trackedIds(market_data) /\ isLatestOf(r, market_data))
              => r \in market_data']_vars

\* A sweep has deleted rows of an earlier run, and asset "a" keeps the row of the
\* batch just stored
W_C14_SweptOldKeptLatest ==
    /\ lastClean.changes > 0
    /\ lastClean.at = now
    /\ \E r \in market_data : r.coin_id = "a" /\ r.timestamp = toISOString(now)
    /\ ~\E r \in market_data : r.timestamp = isoDaysBefore(StartTime, PreviousRunAge)


\* C15: latest-snapshot analytics: the answer of every analytics query (price
\* movers, market insights, market overview, notable movers) is computed, for each
\* asset, only from the asset's snapshot with the greatest timestamp in the table
\* the query read, whatever order the snapshots were stored in.
C15_LatestSnapshotAnalytics ==
    /\ analytics.query = "priceMovers"
          => \A r \in analytics.rows : \A q \in analytics.of :
                q.coin_id = r.coin_id => ~textLess(r.timestamp, q.timestamp)
    /\ analytics.query \in {"marketInsights", "marketOverview", "notableMovers"}
          => \A r \in analytics.rows : \A q \in analytics.of :
                q.id = r.id => q.timestamp <= r.timestamp

\* A query answered from the later snapshot of an asset whose earlier snapshot
\* was stored after it
W_C15_LaterStoredFirst ==
    /\ analytics.query = "marketOverview"
    /\ base_market_data = analytics.of
    /\ \E r \in analytics.rows :
          /\ \E q \in analytics.of : q.id = r.id /\ q.timestamp < r.timestamp
          /\ lastBaseStoreArg.data[1].id = r.id
          /\ lastBaseStoreArg.data[1].timestamp < r.timestamp


\* C16: the enrichment queue is seeded with exactly the identifiers that have at
\* least one row in base_market_data and no row in base_token_info: when
\* initialize starts the pass, the queue holds every such identifier and no other.
C16_QueueSeededWithMissingDetail ==
    [][(enrichPc = "idle" /\ enrichPc' # "idle")
          => {requestQueue'[i] : i \in 1..Len(requestQueue')}
                = {r.id : r \in base_market_data} \ enrichDb.base_token_info]_vars


\* C17: a missing API credential is fatal at initialization: when
\* COINGECKO_API_KEY is not configured the plugin-coingecko MarketDataService
\* does not start: it issues no upstream request, starts no updateMarketData
\* call, never becomes initialized and never sets its interval timer.
C17_MissingKeyIsFatal ==
    ~coingeckoApiKey
        => /\ cycles = <<>>
           /\ initState \in {"new", "failed"}
           /\ updateInterval = NULL


\* The stored analyses of contract a that are younger than ANALYSIS_CACHE_DURATION
freshAnalyses(a) ==
    {m \in memories : m.data.address = a /\ now - m.createdAt < ANALYSIS_CACHE_DURATION}

\* C18: contract-analysis results are cached for one hour: an analyzeContract(a)
\* call returns a stored result without calling the API only when the most recent
\* stored analysis of a is younger than ANALYSIS_CACHE_DURATION, and then returns
\* that analysis; otherwise it calls the API, and stores the answer it gets.
C18_AnalysisCachedOneHour ==
    [][/\ Len(analyses') > Len(analyses) /\ memoryManager
          => LET call == analyses'[Len(analyses')]
             IN  IF freshAnalyses(call.address) # {}
                 THEN /\ ~call.apiCalled
                      /\ \E m \in freshAnalyses(call.address) :
                            /\ call.result = m.data
                            /\ \A o \in freshAnalyses(call.address) : o.createdAt <= m.createdAt
                 ELSE call.apiCalled /\ call.pc = "fetching"
       /\ \A c \in 1..Len(analyses) :
            (analyses[c].pc = "fetching" /\ analyses'[c].pc = "returned")
               => \E m \in memories' : /\ m.data = analyses'[c].result
                                        /\ m.data.address = analyses[c].address
                                        /\ m.createdAt = now]_vars


\* C19: minimum-gap enforcement: a timer tick starts a sync cycle only if at least
\* MINIMUM_UPDATE_GAP has elapsed since lastUpdateTime; a tick that arrives sooner
\* is skipped and changes neither isUpdating nor lastUpdateTime nor the store.
C19_MinimumGapEnforced ==
    [][(updateInterval # NULL /\ updateInterval' # updateInterval)
          => /\ Len(cycles') > Len(cycles) => now - lastUpdateTime >= MINIMUM_UPDATE_GAP
             /\ now - lastUpdateTime < MINIMUM_UPDATE_GAP
                   => /\ cycles' = cycles
                      /\ isUpdating' = isUpdating
                      /\ lastUpdateTime' = lastUpdateTime
                      /\ UNCHANGED storeVars]_vars

\* The timer has just fired while no cycle was running, less than
\* MINIMUM_UPDATE_GAP after the last store of an earlier tick's cycle: no cycle started
W_C19_TickSkippedByGap ==
    /\ updateInterval = now + UPDATE_INTERVAL
    /\ ~isUpdating
    /\ now - lastUpdateTime < MINIMUM_UPDATE_GAP
    /\ \E c \in 1..Len(cycles) : cycles[c].caller = "tick" /\ cycles[c].pc = "ok"
    /\ \A c \in 1..Len(cycles) : cycles[c].starts[1] # now /\ cycles[c].endedAt # now


\* C20: if the sync cycle started by a timer tick has completed successfully before
\* the next tick, UPDATE_INTERVAL later, that next tick starts a new cycle and is
\* not skipped by the minimum-gap check, however long the cycle took (one or two
\* RETRY_DELAY waits included).
C20_NextTickStartsCycle ==
    [][(/\ updateInterval # NULL /\ updateInterval' # updateInterval
        /\ ~isUpdating
        /\ \E c \in 1..Len(cycles) : /\ cycles[c].caller = "tick"
                                      /\ cycles[c].starts[1] = now - UPDATE_INTERVAL
                                      /\ cycles[c].pc = "ok")
          => Len(cycles') = Len(cycles) + 1]_vars


\* C21: within one sync cycle a batch is committed to the store at most once:
\* once storeMarketData has succeeded in an updateMarketData call, no later
\* failure of that call (in cleanOldData) leads to another fetch and another store.
C21_OneCommitPerCycle ==
    \A c \in 1..Len(cycles) : cycles[c].commits <= 1


\* what fetchTokenInfo returns after a failure other than a 429
OtherFailures == {"Database error", "Invalid response format", "error"}

\* C22: a failure other than a 429 for an identifier in the enrichment pass
\* (upstream error, invalid response, store error) increments failureCount by
\* one, appends the identifier once to failedTokenIds, does not put it back in
\* the queue, and the pass goes on with the next queued identifier.
C22_OtherFailureCountedOnce ==
    [][/\ (enrichPc = "fetch" /\ enrichPc' = "result" /\ lastResult' \in OtherFailures)
            => requestQueue' = requestQueue
       /\ (enrichPc = "result" /\ lastResult \in OtherFailures /\ failureCount < CountCap
              /\ Len(failedTokenIds) < CountCap)
            => /\ failureCount' = failureCount + 1
               /\ failedTokenIds' = Append(failedTokenIds, tokenId)
               /\ successCount' = successCount
               /\ requestQueue' = requestQueue
               /\ enrichPc' = "loop"
       /\ (enrichPc = "loop" /\ lastResult \in OtherFailures /\ Len(requestQueue) > 0)
            => /\ tokenId' = Head(requestQueue)
               /\ requestQueue' = Tail(requestQueue)]_vars

\* A pass over x and y has ended: x failed once and is listed once, y was
\* processed after it
W_C22_FailedThenContinued ==
    /\ enrichPc = "done"
    /\ tokenIdsArg = <<"x", "y">>
    /\ rateLimited = {}
    /\ failureCount = 1
    /\ failedTokenIds = <<"x">>
    /\ successCount = 1
    /\ enrichDb.base_token_info = {"y"}


\* C23: two enrichment drain passes never run concurrently on one
\* TokenInfoService: a processBulkTokenInfo or retryFailedTokens call starts only
\* when every earlier call has left its loop, and a call dequeues only
\* identifiers of its own list.
C23_OnePassAtATime ==
    [][/\ Len(passes') > Len(passes)
            => \A p \in 1..Len(passes) : passes[p].pc = "done"
       /\ \A p \in 1..Len(passes') :
            passes'[p].tokenId \in {passes'[p].tokenIds[i] : i \in 1..Len(passes'[p].tokenIds)}]_vars


\* C24: the drain pass of initialize begins only after getAllTokenIds() found a
\* snapshot in the market-data store; initialize polls at most 24 times, and when
\* the store is still empty after the 24th sleep it fails with the timeout error
\* with no identifier queued or processed.
C24_StartupWaitsForMarketData ==
    /\ startup.polls <= maxAttempts
    /\ startup.attempts <= maxAttempts
    /\ enrichPc # "idle" => startup.pc = "seeded" /\ base_market_data # {}
    /\ startup.pc = "seeded" => base_market_data # {}
    /\ (startup.pc = "failed" /\ startup.error = "timeout")
         => /\ startup.polls = maxAttempts /\ startup.attempts = maxAttempts
            /\ enrichPc = "idle" /\ requestQueue = <<>> /\ tokenIdsArg = <<>>
            /\ successCount = 0 /\ failureCount = 0
    /\ startup.pc = "sleep" => startup.attempts < maxAttempts

W_C24_TimedOut ==
    /\ startup.pc = "failed" /\ startup.error = "timeout" /\ startup.polls = maxAttempts
    /\ base_market_data = {}


\* C25: the write of one asset's enrichment is atomic: when fetchTokenInfo gets
\* data, either the Asset Detail row, the category tags and the DEX Listing rows
\* of the asset are all stored and the result is a success, or the store is left
\* exactly as it was and the asset is counted as a failure.
C25_EnrichmentWriteAtomic ==
    [][/\ (enrichPc = "fetch" /\ enrichPc' = "result")
            => \/ /\ lastResult' = "success"
                  /\ enrichDb' = [base_token_info |-> enrichDb.base_token_info \cup {tokenId},
                                  token_categories |-> enrichDb.token_categories \cup {tokenId},
                                  token_dex_data |-> enrichDb.token_dex_data \cup {tokenId}]
               \/ /\ lastResult' # "success"
                  /\ enrichDb' = enrichDb
       /\ (enrichPc = "result" /\ lastResult = "Database error" /\ failureCount < CountCap
              /\ Len(failedTokenIds) < CountCap)
            => /\ failureCount' = failureCount + 1
               /\ successCount' = successCount
               /\ failedTokenIds' = Append(failedTokenIds, tokenId)
               /\ enrichDb' = enrichDb]_vars

W_C25_WriteFailedNothingStored ==
    /\ enrichPc = "done" /\ tokenIdsArg = <<"x", "y">> /\ rateLimited = {}
    /\ lastResult = "Database error" /\ failedTokenIds = <<"y">> /\ successCount = 1
    /\ enrichDb = [base_token_info |-> {"x"}, token_categories |-> {"x"},
                   token_dex_data |-> {"x"}]


\* the rows of the table an answer was computed from that qualify for a bucket
\* of the answer
C26_Qualifying(timeframe, type) ==
    {q \in analytics.of :
        /\ \A o \in analytics.of : o.timestamp <= q.timestamp
        /\ q.asset_platform_id = "base"
        /\ q.market_cap >= 5000000 /\ q.total_volume >= 300000
        /\ price_change(q, timeframe) # <<>>
        /\ abs(price_change(q, timeframe)[1]) >= 5
        /\ (type = "gainer") = (price_change(q, timeframe)[1] > 0)}

C26_Bucket(timeframe, type) ==
    {r \in analytics.rows : r.timeframe = timeframe /\ r.movement_type = type}

C26_Score(r) == abs(r.price_change * LOG10(r.market_cap) * LOG10(r.total_volume))

C26_Limit(timeframe) == IF timeframe = "last_24h" THEN 3 ELSE 1

\* C26: notable movers returns, per (timeframe, direction) bucket, the top entries
\* by absolute composite movement score: at most 3 gainers and 3 losers for 24 h
\* and at most 1 gainer and 1 loser for 7 d (all of the bucket when it has fewer),
\* no qualifying asset left out scores higher than a returned one, and every
\* returned asset has market cap >= 5,000,000, volume >= 300,000 and an absolute
\* change >= 5 % in the bucket's timeframe.
C26_NotableMoversTopRanked ==
    analytics.query = "notableMovers" =>
        /\ \A r \in analytics.rows :
              /\ r.market_cap >= 5000000 /\ r.total_volume >= 300000
              /\ abs(r.price_change) >= 5
              /\ r.timeframe \in {"last_24h", "last_7d"}
              /\ r.movement_type = (IF r.price_change > 0 THEN "gainer" ELSE "loser")
        /\ \A timeframe \in {"last_24h", "last_7d"}, type \in {"gainer", "loser"} :
              LET bucket == C26_Bucket(timeframe, type)
                  qualifying == C26_Qualifying(timeframe, type)
                  returned == {q \in qualifying : moverRow(q, timeframe) \in bucket}
              IN  /\ Cardinality(bucket) <= C26_Limit(timeframe)
                  /\ bucket = {moverRow(q, timeframe) : q \in returned}
                  /\ Cardinality(returned) =
                        (IF Cardinality(qualifying) < C26_Limit(timeframe)
                         THEN Cardinality(qualifying) ELSE C26_Limit(timeframe))
                  /\ \A r \in bucket : \A q \in qualifying \ returned :
                        C26_Score(r) >= C26_Score(moverRow(q, timeframe))

\* Four qualifying 24 h gainers of which three are returned, the one left out
\* having a greater raw change than a returned one
W_C26_FourthGainerLeftOut ==
    /\ analytics.query = "notableMovers"
    /\ Cardinality(C26_Qualifying("last_24h", "gainer")) = 4
    /\ Cardinality(C26_Bucket("last_24h", "gainer")) = 3
    /\ \E q \in C26_Qualifying("last_24h", "gainer") :
          /\ moverRow(q, "last_24h") \notin analytics.rows
          /\ \E r \in C26_Bucket("last_24h", "gainer") : r.price_change < q.price_change_percentage_24h[1]


C27_Started(i) == operations[i].state \in {"active", "interval", "returned", "rejected"}

\* C27: the calls through one CoingeckoService are serialized first in, first out:
\* at most one operation is active, operations start in the order they were
\* submitted, and an operation starts only after the one before it has finished
\* and minRequestInterval has elapsed since.
C27_SerializedFifo ==
    /\ Cardinality({i \in 1..Len(operations) : operations[i].state = "active"}) <= 1
    /\ \A i, j \in 1..Len(operations) :
          (i < j /\ C27_Started(j))
            => /\ C27_Started(i)
               /\ operations[i].state \notin {"active", "interval"}
               /\ operations[i].startedAt <= operations[j].startedAt
               /\ operations[j].startedAt >= operations[i].finishedAt + 1000

W_C27_SecondStartedAfterInterval ==
    /\ Len(operations) = 3
    /\ operations[1].state = "returned"
    /\ operations[2].state = "active"
    /\ operations[2].startedAt = operations[1].finishedAt + 1000
    /\ operations[3].state = "queued"

\* C28: a failed request does not block later ones: no call's operation is passed
\* over, and the promise of every call settles with the outcome of its own
\* operation.
C28_FailureDoesNotBlockLater ==
    \A i \in 1..Len(operations) :
        /\ operations[i].state # "skipped"
        /\ operations[i].settled \in {0, i}


C30_CleanupTerminates == (cleanup.pc = "loop") ~> (cleanup.pc = "done")

====
